---- MODULE Spec2Model ----
(***************************************************************************)
(* Payment-webhook relay: the webhook receiver (src/api/webhook.js) that   *)
(* verifies, classifies and resolves a payment-processor notification and  *)
(* activates / extends a user's license in the external database.          *)
(*                                                                         *)
(* Time is counted in whole days.  A Date object is a day number (its      *)
(* internal time value), an ISO string is a record [y, m, d] with a        *)
(* 1-based month; the two are converted as the runtime converts them.      *)
(* Every `await` of the source is a step boundary of a handler.            *)
(***************************************************************************)
EXTENDS Integers, Sequences, FiniteSets, TLC

VARIABLES
    secret,     \* process.env.MP_WEBHOOK_SECRET ("" when not configured)
    now,        \* the wall clock, a day number
    auth,       \* identity provider: the emails that have an identity
    db,         \* database: uid -> the record stored under users/{uid}
    outbox,     \* emails an activation email was sent to
    httpIn,     \* a request the transport holds for the handler, or Null
    hs,         \* the handler invocations: position and locals of each
    delivered,  \* number of requests handed to the handler so far
    calls,      \* history: the external calls made so far, by name, and
                \* "(rejected)" once one of them has failed
    gen,        \* history: uid -> number of license writes made so far
    lastDone,   \* history: uid -> the last activation that ran to its end
    mp,         \* payment processor: the objects created through the checkout
                \* endpoints and the payments / preapprovals made on them
    co,         \* the checkout endpoints: request, position and response
    run         \* which deployed handler variant is handling, the world the
                \* notification found, and what the other variant made of it

vars == <<secret, now, auth, db, outbox, httpIn, hs, delivered, calls, gen, lastDone,
          mp, co, run>>

---------------------------------------------------------------------------
(* Bounds of the model *)

MaxHandlers == 2
MaxDeliveries == 2
MaxTicks == 2
MaxDay == 40

Handlers == 1..MaxHandlers

Null == [null |-> TRUE]

---------------------------------------------------------------------------
(* Calendar: the Date arithmetic activateLicense relies on *)

\* the clock when the system starts: 2025-01-31, as an ISO string
StartISO == [y |-> 2025, m |-> 1, d |-> 31]

\* day 0 is January 1st of the year before
EpochYear == StartISO.y - 1

\* months the calendar tables must cover: every grant is at most 12 months
MaxMonthIdx == 12 * (MaxDeliveries + 3) + 1

IsLeap(y) == (y % 4 = 0 /\ y % 100 # 0) \/ y % 400 = 0

\* m is 0-based, as Date.getMonth()
DaysInMonth(y, m) ==
    IF m = 1 THEN (IF IsLeap(y) THEN 29 ELSE 28)
    ELSE IF m \in {3, 5, 8, 10} THEN 30 ELSE 31

RECURSIVE MonthStartRec(_)
MonthStartRec(k) ==
    IF k = 0 THEN 0
    ELSE MonthStartRec(k - 1)
         + DaysInMonth(EpochYear + ((k - 1) \div 12), (k - 1) % 12)

\* day number of the first day of the k-th month since January of EpochYear
MonthStart == [k \in 0..(MaxMonthIdx + 1) |-> MonthStartRec(k)]

\* MakeDay/MakeDate: month and day overflow roll into the following months
MakeDay(y, m, d) == MonthStart[(y - EpochYear) * 12 + m] + (d - 1)

MonthOfDay(n) ==
    CHOOSE k \in 0..MaxMonthIdx : MonthStart[k] <= n /\ n < MonthStart[k + 1]

getFullYear(n) == EpochYear + (MonthOfDay(n) \div 12)
getMonth(n)    == MonthOfDay(n) % 12
getDate(n)     == n - MonthStart[MonthOfDay(n)] + 1

\* Date.prototype.setMonth(month): same year field, same day-of-month field
setMonth(n, month) == MakeDay(getFullYear(n), month, getDate(n))

\* Date.prototype.toISOString()
toISOString(n) == [y |-> getFullYear(n), m |-> getMonth(n) + 1, d |-> getDate(n)]

\* new Date(isoString)
NewDate(iso) == MakeDay(iso.y, iso.m - 1, iso.d)

StartDay == NewDate(StartISO)

\* the clock advances one step of this many days at a time
TickDays == DaysInMonth(StartISO.y, StartISO.m - 1)

---------------------------------------------------------------------------
(* JSON and the conversion tables of the webhook *)

JSONstringify(obj) == [json |-> obj]

\* JSON.parse: the parsed value, or a SyntaxError
JSONparse(text) ==
    IF "json" \in DOMAIN text THEN [ok |-> TRUE, value |-> text.json]
    ELSE [ok |-> FALSE]

\* obj.f of a parsed object; undefined reads as the (falsy) empty string
Field(obj, f) == IF f \in DOMAIN obj THEN obj[f] ELSE ""

DURATION_MONTHS == [d \in {"1m", "3m", "6m", "12m"} |->
    IF d = "1m" THEN 1 ELSE IF d = "3m" THEN 3 ELSE IF d = "6m" THEN 6 ELSE 12]

DURATION_LICENSE == [d \in {"1m", "3m", "6m", "12m"} |->
    IF d = "12m" THEN "Annual" ELSE "Monthly"]

PLAN_MAX_DEVICES == [p \in {"individual", "profesional"} |->
    IF p = "profesional" THEN 3 ELSE 1]

\* the function Object, by the own properties the model reads
ObjectConstructor == [name |-> [primitive |-> "Object"]]

\* what every object literal inherits
ObjectPrototype == [constructor |-> ObjectConstructor]

\* obj[key]: an own property, else one inherited from Object.prototype, else
\* undefined
Get(obj, key) ==
    IF key \in DOMAIN obj THEN [found |-> TRUE, value |-> obj[key]]
    ELSE IF key \in DOMAIN ObjectPrototype
         THEN [found |-> TRUE, value |-> ObjectPrototype[key]]
    ELSE [found |-> FALSE]

\* table[key] || dflt (every value of the tables and of the prototype is truthy)
Lookup(table, key, dflt) ==
    IF Get(table, key).found THEN Get(table, key).value ELSE dflt

---------------------------------------------------------------------------
(* The payment processor, as the resolver sees it *)

Emails == {"a@b.com", "c@d.com"}

UidOf == [e \in Emails |-> IF e = "a@b.com" THEN "uidA" ELSE "uidC"]

Uids == {UidOf[e] : e \in Emails}

\* Payment.get({id}): the payment objects the processor holds
MP_PAYMENTS ==
    ("1" :> [status |-> "approved",
             external_reference |->
                 JSONstringify([e |-> "a@b.com", p |-> "individual", d |-> "3m"]),
             transaction_amount |-> 40, currency_id |-> "USD"]) @@
    ("2" :> [status |-> "approved",
             external_reference |->
                 JSONstringify([e |-> "a@b.com", p |-> "profesional", d |-> "12m"]),
             transaction_amount |-> 249, currency_id |-> "USD"]) @@
    ("3" :> [status |-> "pending",
             external_reference |->
                 JSONstringify([e |-> "a@b.com", p |-> "individual", d |-> "1m"]),
             transaction_amount |-> 15, currency_id |-> "USD"]) @@
    ("4" :> [status |-> "rejected",
             external_reference |->
                 JSONstringify([e |-> "c@d.com", p |-> "profesional", d |-> "1m"]),
             transaction_amount |-> 25, currency_id |-> "USD"]) @@
    ("5" :> [status |-> "approved",
             external_reference |-> [text |-> "not json"],
             transaction_amount |-> 15, currency_id |-> "USD"]) @@
    ("6" :> [status |-> "approved",
             external_reference |->
                 JSONstringify([e |-> "a@b.com", p |-> "individual", d |-> "6m"]),
             transaction_amount |-> 75, currency_id |-> "USD"])

\* PreApproval.get({id}): the preapproval objects the processor holds
MP_PREAPPROVALS ==
    ("1" :> [status |-> "authorized", payer_email |-> "a@b.com",
             auto_recurring |-> [transaction_amount |-> 15, currency_id |-> "USD"]]) @@
    ("2" :> [status |-> "authorized", payer_email |-> "c@d.com",
             auto_recurring |-> [transaction_amount |-> 25, currency_id |-> "USD"]]) @@
    ("3" :> [status |-> "pending", payer_email |-> "a@b.com",
             auto_recurring |-> [transaction_amount |-> 15, currency_id |-> "USD"]]) @@
    ("4" :> [status |-> "authorized", payer_email |-> "",
             auto_recurring |-> [transaction_amount |-> 15, currency_id |-> "USD"]])

\* GET /v1/subscription_authorized_payments/{id}: response ok flag and body
MP_AUTHORIZED_PAYMENTS ==
    ("1" :> [ok |-> TRUE,  status |-> "processed", preapproval_id |-> "1"]) @@
    ("2" :> [ok |-> TRUE,  status |-> "processed", preapproval_id |-> ""]) @@
    ("3" :> [ok |-> TRUE,  status |-> "scheduled", preapproval_id |-> "1"]) @@
    ("4" :> [ok |-> FALSE, status |-> "", preapproval_id |-> ""]) @@
    ("5" :> [ok |-> TRUE,  status |-> "processed", preapproval_id |-> "3"])

---------------------------------------------------------------------------
(* Requests and the signature verifier *)

\* number of bytes of a digest
DigestLen == 2

\* crypto.createHmac('sha256', key).update(msg).digest(): a sequence of bytes
Hmac(key, msg) == [i \in 1..DigestLen |-> [key |-> key, msg |-> msg, i |-> i]]

\* a hex string is a sequence of two-character groups: a group is the two
\* hex digits of one byte (in lower or upper case) or is no hex at all
HexGroup(byte, upper) == [hex |-> byte, uc |-> upper]

NotHex == [junk |-> TRUE]

\* .digest('hex')
HexOf(bytes) == [i \in 1..Len(bytes) |-> HexGroup(bytes[i], FALSE)]

\* Buffer.from(str, 'hex'): decoding stops at the first group that is no hex
BufferFromHex(str) ==
    LET bad == {i \in 1..Len(str) : "hex" \notin DOMAIN str[i]}
        n   == IF bad = {} THEN Len(str)
               ELSE (CHOOSE i \in bad : \A j \in bad : i <= j) - 1
    IN  [i \in 1..n |-> str[i].hex]

\* `id:${id};request-id:${xRequestId};ts:${ts};`
Manifest(id, requestId, ts) == <<"id:", id, ";request-id:", requestId, ";ts:", ts, ";">>

\* Object.fromEntries(xSignature.split(',').map(p => p.trim().split('=')))[key] || ''
\* the header is held already split: a sequence of parts <<key, value>> or <<key>>
SignaturePart(xSignature, key, empty) ==
    LET idx == {i \in 1..Len(xSignature) : xSignature[i][1] = key}
    IN  IF idx = {} THEN empty
        ELSE LET last == CHOOSE i \in idx : \A j \in idx : j <= i
             IN  IF Len(xSignature[last]) >= 2 THEN xSignature[last][2] ELSE empty

\* body.data?.id || query.id || ''
RequestId(req) == IF req.bodyId # "" THEN req.bodyId ELSE req.queryId

\* body.type || query.topic || ''
RequestTopic(req) == IF req.bodyType # "" THEN req.bodyType ELSE req.queryTopic

VerifySignature_HeaderRequired(req, key) ==
    /\ req.xSignature # <<>>
    /\ BufferFromHex(SignaturePart(req.xSignature, "v1", <<>>))
         = Hmac(key, Manifest(RequestId(req), req.xRequestId,
                              SignaturePart(req.xSignature, "ts", "")))

\* verifySignature(req, secret); timingSafeEqual throws a RangeError on
\* buffers of different lengths, which the catch turns into false
VerifySignature(req, key) ==
    IF req.xSignature = <<>> THEN TRUE
    ELSE LET ts       == SignaturePart(req.xSignature, "ts", "")
             hash     == SignaturePart(req.xSignature, "v1", <<>>)
             expected == HexOf(Hmac(key, Manifest(RequestId(req), req.xRequestId, ts)))
             a        == BufferFromHex(hash)
             b        == BufferFromHex(expected)
         IN  IF Len(a) # Len(b) THEN FALSE ELSE a = b

\* the secret the processor signs with, and the one a forger guesses
Secret == "S"

OtherSecret == "X"

Topics == {"payment", "preapproval", "subscription_preapproval",
           "subscription_authorized_payment", "merchant_order", ""}

EventIds == {"", "1", "2", "3", "4", "5", "6"}

RequestIdHeader == "abc"

Timestamp == "999"

\* the x-signature headers a request for event `id` may carry
SignatureHeaders(id) ==
    LET good  == HexOf(Hmac(Secret, Manifest(id, RequestIdHeader, Timestamp)))
        other == HexOf(Hmac(Secret, Manifest("9", RequestIdHeader, Timestamp)))
        wrong == HexOf(Hmac(OtherSecret, Manifest(id, RequestIdHeader, Timestamp)))
        upper == [i \in 1..Len(good) |-> HexGroup(good[i].hex, TRUE)]
    IN  { <<>>,                                           \* no header
          << <<"ts", Timestamp>>, <<"v1", good>> >>,      \* signed by the processor
          << <<"ts", Timestamp>>, <<"v1", upper>> >>,     \* the same digest, upper case
          << <<"ts", Timestamp>>, <<"v1", wrong>> >>,     \* signed with another key
          << <<"ts", Timestamp>>, <<"v1", other>> >>,     \* signed for another event
          << <<"ts", "1000">>, <<"v1", good>> >>,         \* timestamp altered
          << <<"ts", Timestamp>>, <<"v1", SubSeq(good, 1, Len(good) - 1)>> >>,
          << <<"ts", Timestamp>>, <<"v1", <<NotHex>> \o good>> >>,
          << <<"ts", Timestamp>>, <<"v1", good \o <<NotHex>> >> >>, \* digest, then junk
          << <<"ts", Timestamp>>, <<"v1">> >>,            \* v1 without a value
          << <<"garbage">> >> }                           \* not key=value at all

Request(method, sig, bodyType, bodyId, queryTopic, queryId) ==
    [method |-> method, xSignature |-> sig, xRequestId |-> RequestIdHeader,
     bodyType |-> bodyType, bodyId |-> bodyId,
     queryTopic |-> queryTopic, queryId |-> queryId]

\* every request the transport may hand over: JSON body (new format), query
\* parameters (legacy IPN), or a body type with the id in the query
Requests ==
    { Request(m, sig, t, id, "", "") :
        m \in {"POST", "GET"}, t \in Topics, id \in EventIds, sig \in {<<>>} } \cup
    UNION { { Request("POST", sig, t, id, "", "") : sig \in SignatureHeaders(id) } :
        <<t, id>> \in Topics \X EventIds } \cup
    UNION { { Request("POST", sig, "", "", t, id) : sig \in SignatureHeaders(id) } :
        <<t, id>> \in Topics \X EventIds } \cup
    UNION { { Request("POST", sig, t, "", "merchant_order", id) :
                sig \in SignatureHeaders(id) } :
        <<t, id>> \in Topics \X EventIds }

\* the notifications the processor itself sends, signed, and one forgery
Notifications ==
    { Request("POST", << <<"ts", Timestamp>>,
                         <<"v1", HexOf(Hmac(Secret, Manifest(id, RequestIdHeader, Timestamp)))>> >>,
              t, id, "", "") :
        t \in Topics \ {""}, id \in EventIds \ {""} } \cup
    { Request("POST", << <<"ts", Timestamp>>,
                         <<"v1", HexOf(Hmac(OtherSecret, Manifest("1", RequestIdHeader, Timestamp)))>> >>,
              "payment", "1", "", ""),
      Request("GET", <<>>, "payment", "1", "", "") }

---------------------------------------------------------------------------
(* Handler invocations *)

NoActivation == [pid |-> "", exp |-> Null, gen |-> 0]

IdleHandler ==
    [pc |-> "idle", id |-> "", email |-> "", info |-> Null, uid |-> "",
     isNewUser |-> FALSE, currentExp |-> Null, now |-> 0, newExpDate |-> Null,
     readGen |-> 0, snap |-> Null, res |-> 0, threw |-> FALSE]

\* the handler has returned: res.status(200).end() was its first statement
Returned == [IdleHandler EXCEPT !.res = 200]

Caught_Rethrow(hrec) == [IdleHandler EXCEPT !.res = 200, !.threw = TRUE]

\* an exception inside the handler's try block: logged by the catch, no rethrow
Caught(hrec) == Returned

Dispatch_PaymentByDefault(topic) ==
    IF topic \in {"preapproval", "subscription_preapproval"} THEN "preapproval_get"
    ELSE IF topic = "subscription_authorized_payment" THEN "authorized_fetch"
    ELSE "payment_get"

\* the if / else-if chain over topic: the first await each branch reaches
Dispatch(topic) ==
    IF topic = "payment" THEN "payment_get"
    ELSE IF topic \in {"preapproval", "subscription_preapproval"} THEN "preapproval_get"
    ELSE IF topic = "subscription_authorized_payment" THEN "authorized_fetch"
    ELSE "idle"

\* module.exports = async function handler(req, res), up to its first await
HandlerEntry(req, key, done) ==
    IF req.method # "POST" THEN Returned
    ELSE IF key # "" /\ ~VerifySignature(req, key) THEN Returned
    ELSE LET topic == RequestTopic(req)
             id    == RequestId(req)
         IN  IF topic = "" \/ id = "" THEN Returned
             ELSE IF Dispatch(topic) = "idle" THEN Returned
             ELSE [Returned EXCEPT
                     !.pc = Dispatch(topic),
                     !.id = id,
                     !.snap = done]

---------------------------------------------------------------------------
(* The resolver: handlePayment, handleSubscription, handleSubscriptionRenewal *)

Drop == [proceed |-> FALSE, throws |-> FALSE]

\* a TypeError inside the resolver
Throw == [proceed |-> FALSE, throws |-> TRUE]

IsApproved_OrPending(status) == status \in {"approved", "pending"}

\* payment.status !== 'approved' returns early
IsApproved(status) == status = "approved"

\* try { ref = JSON.parse(payment.external_reference || '{}') } catch { ref = {} }
ParseReference(external_reference) ==
    IF external_reference = Null THEN <<>>
    ELSE LET parsed == JSONparse(external_reference)
         IN  IF parsed.ok THEN parsed.value ELSE <<>>

HandlePayment_FallsBackToPayer(paymentId, payment) ==
    IF ~IsApproved(payment.status) THEN Drop
    ELSE IF ParseReference(payment.external_reference) = Null THEN Throw
    ELSE LET ref      == ParseReference(payment.external_reference)
             email    == IF Field(ref, "e") # "" THEN Field(ref, "e") ELSE "a@b.com"
             plan     == IF Field(ref, "p") # "" THEN Field(ref, "p") ELSE "individual"
             duration == IF Field(ref, "d") # "" THEN Field(ref, "d") ELSE "1m"
         IN  [proceed |-> TRUE, throws |-> FALSE, email |-> email,
              info |-> [licenseType   |-> Lookup(DURATION_LICENSE, duration, "Monthly"),
                        months        |-> Lookup(DURATION_MONTHS, duration, 1),
                        maxDevices    |-> Lookup(PLAN_MAX_DEVICES, plan, 1),
                        paymentId     |-> paymentId,
                        preapprovalId |-> "",
                        plan          |-> plan,
                        duration      |-> duration,
                        amount        |-> payment.transaction_amount,
                        currency      |-> payment.currency_id,
                        paymentType   |-> "onetime"]]

\* handlePayment after Payment.get: the email and grant passed to activateLicense
HandlePayment(paymentId, payment) ==
    IF ~IsApproved(payment.status) THEN Drop
    ELSE IF ParseReference(payment.external_reference) = Null THEN Throw \* null.e
    ELSE LET ref      == ParseReference(payment.external_reference)
             email    == Field(ref, "e")
             plan     == IF Field(ref, "p") # "" THEN Field(ref, "p") ELSE "individual"
             duration == IF Field(ref, "d") # "" THEN Field(ref, "d") ELSE "1m"
         IN  IF email = "" THEN Drop
             ELSE [proceed |-> TRUE, throws |-> FALSE, email |-> email,
                   info |-> [licenseType   |-> Lookup(DURATION_LICENSE, duration, "Monthly"),
                             months        |-> Lookup(DURATION_MONTHS, duration, 1),
                             maxDevices    |-> Lookup(PLAN_MAX_DEVICES, plan, 1),
                             paymentId     |-> paymentId,
                             preapprovalId |-> "",
                             plan          |-> plan,
                             duration      |-> duration,
                             amount        |-> payment.transaction_amount,
                             currency      |-> payment.currency_id,
                             paymentType   |-> "onetime"]]

HandleSubscription_AboveThePrice(preapprovalId, presub) ==
    IF presub.status # "authorized" THEN Drop
    ELSE IF presub.payer_email = "" THEN Drop
    ELSE LET amount == presub.auto_recurring.transaction_amount
             plan   == IF amount > 25 THEN "profesional" ELSE "individual"
         IN  [proceed |-> TRUE, throws |-> FALSE, email |-> presub.payer_email,
              info |-> [licenseType   |-> "Monthly",
                        months        |-> 1,
                        maxDevices    |-> PLAN_MAX_DEVICES[plan],
                        paymentId     |-> "",
                        preapprovalId |-> preapprovalId,
                        plan          |-> plan,
                        duration      |-> "",
                        amount        |-> amount,
                        currency      |-> presub.auto_recurring.currency_id,
                        paymentType   |-> "subscription"]]

\* handleSubscription after PreApproval.get
HandleSubscription(preapprovalId, presub) ==
    IF presub.status # "authorized" THEN Drop
    ELSE IF presub.payer_email = "" THEN Drop
    ELSE LET amount == presub.auto_recurring.transaction_amount
             plan   == IF amount >= 25 THEN "profesional" ELSE "individual"
         IN  [proceed |-> TRUE, throws |-> FALSE, email |-> presub.payer_email,
              info |-> [licenseType   |-> "Monthly",
                        months        |-> 1,
                        maxDevices    |-> PLAN_MAX_DEVICES[plan],
                        paymentId     |-> "",
                        preapprovalId |-> preapprovalId,
                        plan          |-> plan,
                        duration      |-> "",
                        amount        |-> amount,
                        currency      |-> presub.auto_recurring.currency_id,
                        paymentType   |-> "subscription"]]

HandleSubscriptionRenewal_AnyStatus(mpRes) ==
    IF ~mpRes.ok THEN "" ELSE mpRes.preapproval_id

\* handleSubscriptionRenewal after the fetch: the preapproval to re-resolve, or ""
HandleSubscriptionRenewal(mpRes) ==
    IF ~mpRes.ok THEN ""
    ELSE IF mpRes.status # "processed" THEN ""
    ELSE mpRes.preapproval_id

---------------------------------------------------------------------------
(* The license activator: activateLicense *)

\* expSnap.val(): the stored value, or null
StoredExpiration(record) ==
    IF "ExpirationDate" \in DOMAIN record THEN record.ExpirationDate ELSE Null

BaseDate_AlwaysNow(currentExp, nowDay) == nowDay

BaseDate_AlwaysExisting(currentExp, nowDay) ==
    IF currentExp # Null THEN NewDate(currentExp) ELSE nowDay

\* baseDate: the current expiration when it is strictly in the future, else now
BaseDate(currentExp, nowDay) ==
    IF currentExp # Null
    THEN LET existingExp == NewDate(currentExp)
         IN  IF existingExp > nowDay THEN existingExp ELSE nowDay
    ELSE nowDay

\* baseDate.setMonth(baseDate.getMonth() + info.months); baseDate.toISOString()
NewExpDate(baseDate, months) ==
    toISOString(setMonth(baseDate, getMonth(baseDate) + months))

\* info.months is a number: it is the function Object when the duration names
\* an inherited property of DURATION_MONTHS; getMonth() + months is then a
\* string, setMonth gives an Invalid Date and toISOString() throws a RangeError
MonthsIsNumber(info) == info.duration \notin DOMAIN ObjectPrototype

\* the updates hold no function: update() throws on one, and info.maxDevices
\* is the function Object when the plan names an inherited property
Storable(info) == info.plan \notin DOMAIN ObjectPrototype

Updates_AlwaysInitialises(r) ==
    [Email           |-> r.email,
     IsActive        |-> TRUE,
     LicenseType     |-> r.info.licenseType,
     ExpirationDate  |-> r.newExpDate,
     MaxDevices      |-> r.info.maxDevices,
     UpdatedAt       |-> toISOString(r.now),
     CreatedAt       |-> toISOString(r.now),
     ValidationCount |-> 0,
     activations     |-> {}]

\* the object passed to db.ref(`users/${uid}`).update
Updates(r) ==
    LET base == [Email          |-> r.email,
                 IsActive       |-> TRUE,
                 LicenseType    |-> r.info.licenseType,
                 ExpirationDate |-> r.newExpDate,
                 MaxDevices     |-> r.info.maxDevices,
                 UpdatedAt      |-> toISOString(r.now)]
    IN  IF r.isNewUser
        THEN base @@ [CreatedAt       |-> toISOString(r.now),
                      ValidationCount |-> 0,
                      activations     |-> {}]
        ELSE base

\* the object set at users/{uid}/payments/{paymentId}
PaymentEntry(r) ==
    [plan     |-> r.info.plan,
     duration |-> r.info.duration,
     amount   |-> r.info.amount,
     currency |-> IF r.info.currency # "" THEN r.info.currency ELSE "USD",
     date     |-> toISOString(r.now),
     type     |-> r.info.paymentType]

SubscriptionRecord_BillingFromStored(r) ==
    [preapprovalId |-> r.info.preapprovalId,
     plan          |-> r.info.plan,
     status        |-> "authorized",
     lastRenewal   |-> toISOString(r.now),
     nextBilling   |-> IF r.currentExp # Null THEN r.currentExp ELSE toISOString(r.now)]

\* the object set at users/{uid}/subscription
SubscriptionRecord(r) ==
    [preapprovalId |-> r.info.preapprovalId,
     plan          |-> r.info.plan,
     status        |-> "authorized",
     lastRenewal   |-> toISOString(r.now),
     nextBilling   |-> r.newExpDate]

StoredPayments(record) ==
    IF "payments" \in DOMAIN record THEN record.payments ELSE <<>>

AfterStep_EmailAlways(pc, info, isNewUser) ==
    IF pc = "update" /\ info.paymentId # "" THEN "payment_set"
    ELSE IF pc \in {"update", "payment_set"} /\ info.preapprovalId # "" THEN "subscription_set"
    ELSE IF pc \in {"update", "payment_set", "subscription_set"} THEN "send_email"
    ELSE "idle"

\* the await that follows the one at `pc`; "idle" when activateLicense returns
AfterStep(pc, info, isNewUser) ==
    IF pc = "update" /\ info.paymentId # "" THEN "payment_set"
    ELSE IF pc \in {"update", "payment_set"} /\ info.preapprovalId # "" THEN "subscription_set"
    ELSE IF pc \in {"update", "payment_set", "subscription_set"} /\ isNewUser THEN "send_email"
    ELSE "idle"

---------------------------------------------------------------------------
(* The checkout endpoints: create-preference and create-subscription *)

CATALOG ==
    [individual |->
        ("1m"  :> [title |-> "BIMS Individual - 1 mes",   price |-> 15,  months |-> 1]  @@
         "3m"  :> [title |-> "BIMS Individual - 3 meses", price |-> 40,  months |-> 3]  @@
         "6m"  :> [title |-> "BIMS Individual - 6 meses", price |-> 75,  months |-> 6]  @@
         "12m" :> [title |-> "BIMS Individual - 1 ano",   price |-> 149, months |-> 12]),
     profesional |->
        ("1m"  :> [title |-> "BIMS Profesional - 1 mes",   price |-> 25,  months |-> 1]  @@
         "3m"  :> [title |-> "BIMS Profesional - 3 meses", price |-> 67,  months |-> 3]  @@
         "6m"  :> [title |-> "BIMS Profesional - 6 meses", price |-> 125, months |-> 6]  @@
         "12m" :> [title |-> "BIMS Profesional - 1 ano",   price |-> 249, months |-> 12])]

SUBSCRIPTION_PRICES == [individual |-> 15, profesional |-> 25]

SUBSCRIPTION_TITLES ==
    [individual  |-> "BIMS Individual - Suscripcion mensual",
     profesional |-> "BIMS Profesional - Suscripcion mensual"]

\* the emails a checkout request may carry, by their characters
EmailChars ==
    ("a@b.com"   :> <<"a", "@", "b", ".", "c", "o", "m">> @@
     "c@d.com"   :> <<"c", "@", "d", ".", "c", "o", "m">> @@
     "a@b"       :> <<"a", "@", "b">> @@
     "a b@c.com" :> <<"a", " ", "b", "@", "c", ".", "c", "o", "m">> @@
     "a@b@c.com" :> <<"a", "@", "b", "@", "c", ".", "c", "o", "m">> @@
     "@b.com"    :> <<"@", "b", ".", "c", "o", "m">> @@
     "a@b."      :> <<"a", "@", "b", ".">>)

\* /^[^\s@]+@[^\s@]+\.[^\s@]+$/.test(email)
EmailRxTest(email) ==
    LET cs == EmailChars[email]
    IN  \E i, j \in 1..Len(cs) :
          /\ cs[i] = "@"
          /\ cs[j] = "."
          /\ 1 < i
          /\ i + 1 < j
          /\ j < Len(cs)
          /\ \A k \in (1..Len(cs)) \ {i} : cs[k] \notin {" ", "@"}

\* res.status(status).json(body) / res.status(status).end()
Response(status, body) == [status |-> status, body |-> body]

\* the endpoint has answered
Answered(req, res) == [req |-> req, pc |-> "idle", res |-> res, creates |-> 0]

PreferenceBody_ReferenceWithoutDuration(email, plan, duration, item) ==
    [items |-> << [id          |-> <<"bims-", plan, "-", duration>>,
                   title       |-> Field(item, "title"),
                   unit_price  |-> Field(item, "price"),
                   quantity    |-> 1,
                   currency_id |-> "USD"] >>,
     payer |-> [email |-> email],
     external_reference |-> JSONstringify([e |-> email, p |-> plan]),
     auto_return |-> "approved"]

\* the body passed to prefAPI.create
PreferenceBody(email, plan, duration, item) ==
    [items |-> << [id          |-> <<"bims-", plan, "-", duration>>,
                   title       |-> Field(item, "title"),
                   unit_price  |-> Field(item, "price"),
                   quantity    |-> 1,
                   currency_id |-> "USD"] >>,
     payer |-> [email |-> email],
     external_reference |-> JSONstringify([e |-> email, p |-> plan, d |-> duration]),
     auto_return |-> "approved"]

\* CATALOG[plan]?.[duration]
ItemLookup(plan, duration) ==
    IF Get(CATALOG, plan).found THEN Get(Get(CATALOG, plan).value, duration)
    ELSE [found |-> FALSE]

\* create-preference handler, up to its response or to the await of prefAPI.create
CreatePreferenceEntry(req) ==
    IF req.method = "OPTIONS" THEN Answered(req, Response(200, Null))
    ELSE IF req.method # "POST"
         THEN Answered(req, Response(405, [error |-> "Metodo no permitido"]))
    ELSE IF req.email = "" \/ req.plan = "" \/ req.duration = ""
         THEN Answered(req, Response(400, [error |-> "Se requieren: email, plan y duration"]))
    ELSE IF ~EmailRxTest(req.email)
         THEN Answered(req, Response(400, [error |-> "Email invalido"]))
    ELSE LET item == ItemLookup(req.plan, req.duration)
         IN  IF ~item.found
             THEN Answered(req, Response(400, [error |-> "Combinacion invalida"]))
             ELSE [req |-> req, pc |-> "preference_create", res |-> Null, creates |-> 0]

\* the body passed to preAPI.create
SubscriptionBody(email, plan, price) ==
    [reason |-> Field(SUBSCRIPTION_TITLES, plan),
     payer_email |-> email,
     external_reference |-> JSONstringify([e |-> email, p |-> plan, t |-> "subscription"]),
     auto_recurring |-> [frequency |-> 1, frequency_type |-> "months",
                         transaction_amount |-> price, currency_id |-> "USD"]]

\* create-subscription handler, up to its response or to the await of preAPI.create
CreateSubscriptionEntry(req) ==
    IF req.method = "OPTIONS" THEN Answered(req, Response(200, Null))
    ELSE IF req.method # "POST"
         THEN Answered(req, Response(405, [error |-> "Metodo no permitido"]))
    ELSE IF req.email = "" \/ req.plan = ""
         THEN Answered(req, Response(400, [error |-> "Se requieren: email y plan"]))
    ELSE IF ~EmailRxTest(req.email)
         THEN Answered(req, Response(400, [error |-> "Email invalido"]))
    ELSE IF ~Get(SUBSCRIPTION_PRICES, req.plan).found
         THEN Answered(req, Response(400, [error |-> "Plan invalido"]))
    ELSE [req |-> req, pc |-> "subscription_create", res |-> Null, creates |-> 0]

\* the processor before anything was created through the endpoints
EmptyProcessor ==
    [preferences |-> <<>>, subscriptions |-> <<>>,
     payments |-> <<>>, preapprovals |-> <<>>, authorized |-> <<>>]

IdleCheckout == [req |-> Null, pc |-> "idle", res |-> Null, creates |-> 0]

\* the id the processor gives to what is made on a created preference or subscription
CheckoutId == "7"

\* one deployment: the handler of api/webhook.js handles every notification
SingleRun == [variant |-> "api", start |-> Null, first |-> Null]

\* Payment.get / PreApproval.get / the authorized_payments endpoint: what the
\* processor holds
Payments == mp.payments @@ MP_PAYMENTS

Preapprovals == mp.preapprovals @@ MP_PREAPPROVALS

AuthorizedPayments == mp.authorized @@ MP_AUTHORIZED_PAYMENTS

---------------------------------------------------------------------------
(* Initial states *)

Init ==
    /\ secret \in {"", Secret}
    /\ now = StartDay
    /\ auth = {}
    /\ db = [u \in Uids |-> <<>>]
    /\ outbox = {}
    /\ httpIn = Null
    /\ hs = [h \in Handlers |-> IdleHandler]
    /\ delivered = 0
    /\ calls = {}
    /\ gen = [u \in Uids |-> 0]
    /\ lastDone = [u \in Uids |-> NoActivation]
    /\ mp = EmptyProcessor
    /\ run = SingleRun
    /\ co = IdleCheckout

\* users/{uid} of a@b.com after payment "2" (profesional, 12 months) was
\* activated for it as a new user on day `written`, and the application has
\* since validated the license and activated a device
LicensedRecord(written) ==
    LET r == [IdleHandler EXCEPT
                !.email = "a@b.com", !.uid = UidOf["a@b.com"], !.isNewUser = TRUE,
                !.info = HandlePayment("2", MP_PAYMENTS["2"]).info,
                !.now = written,
                !.newExpDate = NewExpDate(BaseDate(Null, written), 12)]
    IN  [ValidationCount |-> 3, activations |-> {"device-1"},
         payments |-> ("2" :> PaymentEntry(r))] @@ Updates(r)

\* the world after that activation, with `req` waiting for the handler on day `today`
Licensed(written, today, req) ==
    /\ now = today
    /\ auth = {"a@b.com"}
    /\ db = [u \in Uids |-> IF u = UidOf["a@b.com"] THEN LicensedRecord(written) ELSE <<>>]
    /\ outbox = {"a@b.com"}
    /\ httpIn = req
    /\ hs = [h \in Handlers |-> IdleHandler]
    /\ delivered = 0
    /\ calls = {}
    /\ gen = [u \in Uids |-> IF u = UidOf["a@b.com"] THEN 1 ELSE 0]
    /\ lastDone = [u \in Uids |->
                     IF u = UidOf["a@b.com"]
                     THEN [pid |-> "2", exp |-> LicensedRecord(written).ExpirationDate,
                           gen |-> 1]
                     ELSE NoActivation]

\* the world before any activation, with `req` waiting for the handler on day `today`
Fresh(today, req) ==
    /\ now = today
    /\ auth = {}
    /\ db = [u \in Uids |-> <<>>]
    /\ outbox = {}
    /\ httpIn = req
    /\ hs = [h \in Handlers |-> IdleHandler]
    /\ delivered = 0
    /\ calls = {}
    /\ gen = [u \in Uids |-> 0]
    /\ lastDone = [u \in Uids |-> NoActivation]

\* one request of any shape is waiting for the handler
InitRecv ==
    /\ secret \in {"", Secret}
    /\ mp = EmptyProcessor
    /\ run = SingleRun
    /\ co = IdleCheckout
    /\ \E req \in Requests :
          \/ Fresh(StartDay, req)
          \/ Licensed(StartDay, StartDay, req)

\* the notifications that lead to a grant for a@b.com: 3, 12 and 6 months
\* (payments), 1 month (subscription authorization and renewal)
GrantNotifications ==
    { req \in Notifications :
        \/ req.method = "POST" /\ req.bodyType = "payment" /\ req.bodyId \in {"1", "2", "6"}
              /\ VerifySignature(req, Secret)
        \/ req.bodyType \in {"preapproval", "subscription_authorized_payment"}
              /\ req.bodyId = "1" }

FirstDayOfYear == NewDate([y |-> StartISO.y, m |-> 1, d |-> 1])

\* a grant notification is waiting, on any day of the window, for a new user
\* or for a user licensed on any day of the same window one year earlier
InitGrant ==
    /\ secret = Secret
    /\ mp = EmptyProcessor
    /\ run = SingleRun
    /\ co = IdleCheckout
    /\ \E req \in GrantNotifications, today \in FirstDayOfYear..(FirstDayOfYear + MaxDay) :
          \/ Fresh(today, req)
          \/ \E written \in 0..MaxDay : Licensed(written, today, req)

---------------------------------------------------------------------------
(* Actions *)

\* the external call a handler awaits at each position
CallAt(pc) ==
    IF pc = "payment_get" THEN "Payment.get"
    ELSE IF pc = "preapproval_get" THEN "PreApproval.get"
    ELSE IF pc = "authorized_fetch" THEN "fetch authorized_payment"
    ELSE IF pc = "get_user" THEN "auth.getUserByEmail"
    ELSE IF pc = "create_user" THEN "auth.createUser"
    ELSE IF pc = "read_exp" THEN "db.once"
    ELSE IF pc = "update" THEN "db.update"
    ELSE IF pc = "payment_set" THEN "db.set payment"
    ELSE IF pc = "subscription_set" THEN "db.set subscription"
    ELSE "fetch sendOobCode"

\* the invocation slot a new request gets: the first idle one
FreeSlot(h) == hs[h].pc = "idle" /\ \A g \in Handlers : g < h => hs[g].pc # "idle"

\* a notification arrives and the handler runs up to its first await
Arrive(h) ==
    /\ httpIn = Null
    /\ delivered < MaxDeliveries
    /\ FreeSlot(h)
    /\ \E req \in Notifications :
          hs' = [hs EXCEPT ![h] = HandlerEntry(req, secret, lastDone)]
    /\ delivered' = delivered + 1
    /\ UNCHANGED <<run, mp, co, secret, now, auth, db, outbox, httpIn, calls, gen, lastDone>>

\* the handler takes the waiting request and runs up to its first await
ReceivePending(h) ==
    /\ httpIn # Null
    /\ delivered = 0
    /\ FreeSlot(h)
    /\ hs' = [hs EXCEPT ![h] = HandlerEntry(httpIn, secret, lastDone)]
    /\ delivered' = delivered + 1
    /\ UNCHANGED <<run, mp, co, secret, now, auth, db, outbox, httpIn, calls, gen, lastDone>>

\* await paymentAPI.get({ id: paymentId }) returns
PaymentGet(h) ==
    /\ hs[h].pc = "payment_get"
    /\ hs[h].id \in DOMAIN Payments
    /\ LET g == HandlePayment(hs[h].id, Payments[hs[h].id])
       IN  hs' = [hs EXCEPT ![h] =
                    IF g.proceed
                    THEN [@ EXCEPT !.pc = "get_user", !.email = g.email, !.info = g.info]
                    ELSE IF g.throws THEN Caught(@)
                    ELSE Returned]
    /\ calls' = calls \cup {CallAt(hs[h].pc)}
    /\ UNCHANGED <<run, mp, co, secret, now, auth, db, outbox, httpIn, delivered, gen, lastDone>>

\* await preAPI.get({ id: preapprovalId }) returns
PreapprovalGet(h) ==
    /\ hs[h].pc = "preapproval_get"
    /\ hs[h].id \in DOMAIN Preapprovals
    /\ LET g == HandleSubscription(hs[h].id, Preapprovals[hs[h].id])
       IN  hs' = [hs EXCEPT ![h] =
                    IF g.proceed
                    THEN [@ EXCEPT !.pc = "get_user", !.email = g.email, !.info = g.info]
                    ELSE IF g.throws THEN Caught(@)
                    ELSE Returned]
    /\ calls' = calls \cup {CallAt(hs[h].pc)}
    /\ UNCHANGED <<run, mp, co, secret, now, auth, db, outbox, httpIn, delivered, gen, lastDone>>

\* await fetch(endpoint) and await mpRes.json() return
AuthorizedFetch(h) ==
    /\ hs[h].pc = "authorized_fetch"
    /\ hs[h].id \in DOMAIN AuthorizedPayments
    /\ LET parent == HandleSubscriptionRenewal(AuthorizedPayments[hs[h].id])
       IN  hs' = [hs EXCEPT ![h] =
                    IF parent # ""
                    THEN [@ EXCEPT !.pc = "preapproval_get", !.id = parent]
                    ELSE Returned]
    /\ calls' = calls \cup {CallAt(hs[h].pc)}
    /\ UNCHANGED <<run, mp, co, secret, now, auth, db, outbox, httpIn, delivered, gen, lastDone>>

\* await auth.getUserByEmail(email): a record, or any rejection (the catch
\* does not look at the reason)
GetUserByEmail(h) ==
    /\ hs[h].pc = "get_user"
    /\ \E found \in BOOLEAN :
          /\ found => hs[h].email \in auth
          /\ hs' = [hs EXCEPT ![h] =
                      IF found
                      THEN [@ EXCEPT !.pc = "read_exp", !.uid = UidOf[hs[h].email]]
                      ELSE [@ EXCEPT !.pc = "create_user"]]
    /\ calls' = calls \cup {CallAt(hs[h].pc)}
    /\ UNCHANGED <<run, mp, co, secret, now, auth, db, outbox, httpIn, delivered, gen, lastDone>>

\* await auth.createUser({...}) resolves (it rejects for an email in use)
CreateUser(h) ==
    /\ hs[h].pc = "create_user"
    /\ hs[h].email \notin auth
    /\ auth' = auth \cup {hs[h].email}
    /\ hs' = [hs EXCEPT ![h].pc = "read_exp", ![h].uid = UidOf[hs[h].email],
                        ![h].isNewUser = TRUE]
    /\ calls' = calls \cup {CallAt(hs[h].pc)}
    /\ UNCHANGED <<run, mp, co, secret, now, db, outbox, httpIn, delivered, gen, lastDone>>

\* await db.ref(`users/${uid}/ExpirationDate`).once('value') returns; the
\* handler reads the clock and computes the new expiration
ReadExpiration(h) ==
    /\ hs[h].pc = "read_exp"
    /\ LET currentExp == StoredExpiration(db[hs[h].uid])
       IN  hs' = IF MonthsIsNumber(hs[h].info)
                 THEN [hs EXCEPT ![h].pc = "update",
                                 ![h].currentExp = currentExp,
                                 ![h].now = now,
                                 ![h].readGen = gen[hs[h].uid],
                                 ![h].newExpDate =
                                     NewExpDate(BaseDate(currentExp, now), hs[h].info.months)]
                 ELSE [hs EXCEPT ![h] = Caught(@)]
    /\ calls' = calls \cup {CallAt(hs[h].pc)}
    /\ UNCHANGED <<run, mp, co, secret, now, auth, db, outbox, httpIn, delivered, gen, lastDone>>

\* the handler moves to its next await, or activateLicense and the handler return
Proceed(h, db2, gen2) ==
    LET r   == hs[h]
        nxt == AfterStep(r.pc, r.info, r.isNewUser)
    IN  IF nxt = "idle"
        THEN /\ hs' = [hs EXCEPT ![h] = Returned]
             /\ lastDone' = [lastDone EXCEPT ![r.uid] =
                               [pid |-> r.info.paymentId,
                                exp |-> StoredExpiration(db2[r.uid]),
                                gen |-> gen2[r.uid]]]
        ELSE /\ hs' = [hs EXCEPT ![h].pc = nxt]
             /\ UNCHANGED lastDone

UpdateUser_KeepsStoredGrant(h) ==
    /\ hs[h].pc = "update"
    /\ Storable(hs[h].info)
    /\ LET db2  == [db EXCEPT ![hs[h].uid] =
                      (IF "MaxDevices" \in DOMAIN @
                       THEN [LicenseType |-> @.LicenseType, MaxDevices |-> @.MaxDevices]
                       ELSE <<>>) @@ Updates(hs[h]) @@ @]
           gen2 == [gen EXCEPT ![hs[h].uid] = @ + 1]
       IN  /\ db' = db2
           /\ gen' = gen2
           /\ Proceed(h, db2, gen2)
    /\ calls' = calls \cup {CallAt(hs[h].pc)}
    /\ UNCHANGED <<run, mp, co, secret, now, auth, outbox, httpIn, delivered>>

UpdateUser_NotPersisted(h) ==
    /\ hs[h].pc = "update"
    /\ Storable(hs[h].info)
    /\ LET gen2 == [gen EXCEPT ![hs[h].uid] = @ + 1]
       IN  /\ db' = db
           /\ gen' = gen2
           /\ Proceed(h, db, gen2)
    /\ calls' = calls \cup {CallAt(hs[h].pc)}
    /\ UNCHANGED <<run, mp, co, secret, now, auth, outbox, httpIn, delivered>>

UpdateUser_FromStoredValue(h) ==
    /\ hs[h].pc = "update"
    /\ Storable(hs[h].info)
    /\ LET fresh == [hs[h] EXCEPT
                       !.newExpDate = NewExpDate(
                           BaseDate(StoredExpiration(db[hs[h].uid]), hs[h].now),
                           hs[h].info.months)]
           db2   == [db EXCEPT ![hs[h].uid] = Updates(fresh) @@ @]
           gen2  == [gen EXCEPT ![hs[h].uid] = @ + 1]
       IN  /\ db' = db2
           /\ gen' = gen2
           /\ Proceed(h, db2, gen2)
    /\ calls' = calls \cup {CallAt(hs[h].pc)}
    /\ UNCHANGED <<run, mp, co, secret, now, auth, outbox, httpIn, delivered>>

\* await db.ref(`users/${uid}`).update(updates) resolves
UpdateUser(h) ==
    /\ hs[h].pc = "update"
    /\ Storable(hs[h].info)
    /\ LET db2  == [db EXCEPT ![hs[h].uid] = Updates(hs[h]) @@ @]
           gen2 == [gen EXCEPT ![hs[h].uid] = @ + 1]
       IN  /\ db' = db2
           /\ gen' = gen2
           /\ Proceed(h, db2, gen2)
    /\ calls' = calls \cup {CallAt(hs[h].pc)}
    /\ UNCHANGED <<run, mp, co, secret, now, auth, outbox, httpIn, delivered>>

\* await db.ref(`users/${uid}/payments/${info.paymentId}`).set({...}) resolves
PaymentSet(h) ==
    /\ hs[h].pc = "payment_set"
    /\ LET r   == hs[h]
           db2 == [db EXCEPT ![r.uid] =
                     [payments |-> (r.info.paymentId :> PaymentEntry(r))
                                    @@ StoredPayments(@)] @@ @]
       IN  /\ db' = db2
           /\ Proceed(h, db2, gen)
    /\ calls' = calls \cup {CallAt(hs[h].pc)}
    /\ UNCHANGED <<run, mp, co, secret, now, auth, outbox, httpIn, delivered, gen>>

\* await db.ref(`users/${uid}/subscription`).set({...}) resolves
SubscriptionSet(h) ==
    /\ hs[h].pc = "subscription_set"
    /\ LET r   == hs[h]
           db2 == [db EXCEPT ![r.uid] = [subscription |-> SubscriptionRecord(r)] @@ @]
       IN  /\ db' = db2
           /\ Proceed(h, db2, gen)
    /\ calls' = calls \cup {CallAt(hs[h].pc)}
    /\ UNCHANGED <<run, mp, co, secret, now, auth, outbox, httpIn, delivered, gen>>

\* await sendActivationEmail(email) returns: sent, or not sent (no API key,
\* an error response, a rejected fetch); none of them throws
SendActivationEmail(h) ==
    /\ hs[h].pc = "send_email"
    /\ \E sent \in BOOLEAN :
          outbox' = IF sent THEN outbox \cup {hs[h].email} ELSE outbox
    /\ Proceed(h, db, gen)
    /\ calls' = calls \cup {CallAt(hs[h].pc)}
    /\ UNCHANGED <<run, mp, co, secret, now, auth, db, httpIn, delivered, gen>>

FalliblePcs ==
    {"payment_get", "preapproval_get", "authorized_fetch", "create_user",
     "read_exp", "update", "payment_set", "subscription_set"}

\* the awaited call of the handler rejects: the handler's catch logs and returns
ExternalFailure(h) ==
    /\ hs[h].pc \in FalliblePcs
    /\ hs' = [hs EXCEPT ![h] = Caught(@)]
    /\ calls' = calls \cup {CallAt(hs[h].pc), "(rejected)"}
    /\ UNCHANGED <<run, mp, co, secret, now, auth, db, outbox, httpIn, delivered, gen, lastDone>>

\* time passes
Tick ==
    /\ now < StartDay + MaxTicks * TickDays
    /\ now' = now + TickDays
    /\ UNCHANGED <<run, mp, co, secret, auth, db, outbox, httpIn, hs, delivered, calls, gen, lastDone>>

Next ==
    \/ \E h \in Handlers : Arrive(h)
    \/ \E h \in Handlers : PaymentGet(h)
    \/ \E h \in Handlers : PreapprovalGet(h)
    \/ \E h \in Handlers : AuthorizedFetch(h)
    \/ \E h \in Handlers : GetUserByEmail(h)
    \/ \E h \in Handlers : CreateUser(h)
    \/ \E h \in Handlers : ReadExpiration(h)
    \/ \E h \in Handlers : UpdateUser(h)
    \/ \E h \in Handlers : PaymentSet(h)
    \/ \E h \in Handlers : SubscriptionSet(h)
    \/ \E h \in Handlers : SendActivationEmail(h)
    \/ \E h \in Handlers : ExternalFailure(h)
    \/ Tick

Spec == Init /\ [][Next]_vars

NextRecv ==
    \/ \E h \in Handlers : ReceivePending(h)
    \/ \E h \in Handlers : PaymentGet(h)
    \/ \E h \in Handlers : PreapprovalGet(h)
    \/ \E h \in Handlers : AuthorizedFetch(h)
    \/ \E h \in Handlers : GetUserByEmail(h)
    \/ \E h \in Handlers : CreateUser(h)
    \/ \E h \in Handlers : ReadExpiration(h)
    \/ \E h \in Handlers : UpdateUser(h)
    \/ \E h \in Handlers : PaymentSet(h)
    \/ \E h \in Handlers : SubscriptionSet(h)
    \/ \E h \in Handlers : SendActivationEmail(h)
    \/ \E h \in Handlers : ExternalFailure(h)

SpecRecv == InitRecv /\ [][NextRecv]_vars

SpecGrant == InitGrant /\ [][NextRecv]_vars

---------------------------------------------------------------------------
(* The checkout endpoints and the processor acting on what they create *)

CheckoutRequest(endpoint, method, email, plan, duration) ==
    [endpoint |-> endpoint, method |-> method,
     email |-> email, plan |-> plan, duration |-> duration]

CheckoutPlans == {"", "individual", "profesional", "premium", "constructor"}

CheckoutDurations == {"", "1m", "3m", "6m", "12m", "2m", "name", "constructor"}

\* the requests an endpoint may get: a missing field reads as ""
CheckoutRequests ==
    { CheckoutRequest("create-preference", m, "", "", "") : m \in {"OPTIONS", "GET"} } \cup
    { CheckoutRequest("create-preference", "POST", e, p, d) :
        e \in DOMAIN EmailChars \cup {""}, p \in CheckoutPlans, d \in CheckoutDurations } \cup
    { CheckoutRequest("create-subscription", m, "", "", "") : m \in {"OPTIONS", "GET"} } \cup
    { CheckoutRequest("create-subscription", "POST", e, p, "") :
        e \in DOMAIN EmailChars \cup {""}, p \in CheckoutPlans }

\* the endpoint runs up to its response or to its await
CheckoutReceive ==
    /\ co.req # Null
    /\ co.pc = "idle"
    /\ co.res = Null
    /\ co' = IF co.req.endpoint = "create-preference"
             THEN CreatePreferenceEntry(co.req)
             ELSE CreateSubscriptionEntry(co.req)
    /\ UNCHANGED <<run, mp, secret, now, auth, db, outbox, httpIn, hs, delivered, calls, gen,
                   lastDone>>

\* await prefAPI.create({ body }) resolves: the processor holds the preference
\* (it takes no item without a price) and the endpoint answers with its URLs
PreferenceCreate ==
    /\ co.pc = "preference_create"
    /\ LET r    == co.req
           item == ItemLookup(r.plan, r.duration).value
           body == PreferenceBody(r.email, r.plan, r.duration, item)
       IN  /\ "price" \in DOMAIN item
           /\ mp' = [mp EXCEPT !.preferences = Append(@, body)]
           /\ co' = [co EXCEPT !.pc = "idle", !.creates = @ + 1,
                               !.res = Response(200,
                                   [init_point  |-> <<"init", Len(mp.preferences) + 1>>,
                                    sandbox_url |-> <<"sandbox", Len(mp.preferences) + 1>>])]
    /\ UNCHANGED <<run, secret, now, auth, db, outbox, httpIn, hs, delivered, calls, gen, lastDone>>

\* await preAPI.create({ body }) resolves
SubscriptionCreate ==
    /\ co.pc = "subscription_create"
    /\ LET r     == co.req
           price == Get(SUBSCRIPTION_PRICES, r.plan).value
           body  == SubscriptionBody(r.email, r.plan, price)
       IN  /\ r.plan \in DOMAIN SUBSCRIPTION_PRICES
           /\ mp' = [mp EXCEPT !.subscriptions = Append(@, body)]
           /\ co' = [co EXCEPT !.pc = "idle", !.creates = @ + 1,
                               !.res = Response(200,
                                   [init_point |-> <<"init", Len(mp.subscriptions) + 1>>])]
    /\ UNCHANGED <<run, secret, now, auth, db, outbox, httpIn, hs, delivered, calls, gen, lastDone>>

\* the awaited create rejects: the endpoint's catch answers 500
CheckoutFailure ==
    /\ co.pc \in {"preference_create", "subscription_create"}
    /\ co' = [co EXCEPT !.pc = "idle", !.creates = @ + 1,
                        !.res = Response(500,
                            [error |-> IF co.pc = "preference_create"
                                       THEN "No se pudo crear la preferencia de pago"
                                       ELSE "No se pudo crear la suscripcion"])]
    /\ UNCHANGED <<run, mp, secret, now, auth, db, outbox, httpIn, hs, delivered, calls, gen,
                   lastDone>>

\* the notification the processor sends for `topic` and `id`, signed
ProcessorNotification(topic, id) ==
    Request("POST",
            << <<"ts", Timestamp>>,
               <<"v1", HexOf(Hmac(Secret, Manifest(id, RequestIdHeader, Timestamp)))>> >>,
            topic, id, "", "")

\* the payer pays on the created preference: the processor makes the payment,
\* which carries the reference of the preference, and notifies the webhook
PayPreference ==
    /\ mp.preferences # <<>>
    /\ mp.payments = <<>>
    /\ httpIn = Null
    /\ delivered = 0
    /\ \E status \in {"approved", "pending", "rejected"} :
          LET pref == mp.preferences[1]
          IN  mp' = [mp EXCEPT !.payments = CheckoutId :>
                       [status |-> status,
                        external_reference |-> pref.external_reference,
                        transaction_amount |-> pref.items[1].unit_price * pref.items[1].quantity,
                        currency_id |-> pref.items[1].currency_id]]
    /\ httpIn' = ProcessorNotification("payment", CheckoutId)
    /\ UNCHANGED <<run, co, secret, now, auth, db, outbox, hs, delivered, calls, gen, lastDone>>

\* the payer authorizes the created subscription: the processor makes the
\* preapproval (its payload may come without payer_email) and notifies its
\* authorization, or a processed monthly charge
AuthorizeSubscription ==
    /\ mp.subscriptions # <<>>
    /\ mp.preapprovals = <<>>
    /\ httpIn = Null
    /\ delivered = 0
    /\ \E status \in {"authorized", "pending"}, renewal \in BOOLEAN, withEmail \in BOOLEAN :
          LET sub == mp.subscriptions[1]
          IN  /\ mp' = [mp EXCEPT
                    !.preapprovals = CheckoutId :>
                       [status |-> status,
                        payer_email |-> IF withEmail THEN sub.payer_email ELSE "",
                        auto_recurring |->
                           [transaction_amount |-> sub.auto_recurring.transaction_amount,
                            currency_id |-> sub.auto_recurring.currency_id]],
                    !.authorized = IF renewal
                                   THEN CheckoutId :> [ok |-> TRUE, status |-> "processed",
                                                       preapproval_id |-> CheckoutId]
                                   ELSE <<>>]
              /\ httpIn' = IF renewal
                           THEN ProcessorNotification("subscription_authorized_payment",
                                                      CheckoutId)
                           ELSE ProcessorNotification("subscription_preapproval", CheckoutId)
    /\ UNCHANGED <<run, co, secret, now, auth, db, outbox, hs, delivered, calls, gen, lastDone>>

\* an endpoint has one request to answer, for a new user or a licensed one
InitCheckout ==
    /\ secret = Secret
    /\ mp = EmptyProcessor
    /\ run = SingleRun
    /\ \E req \in CheckoutRequests : co = [IdleCheckout EXCEPT !.req = req]
    /\ \/ Fresh(StartDay, Null)
       \/ Licensed(StartDay - TickDays, StartDay, Null)

NextCheckout ==
    \/ CheckoutReceive
    \/ PreferenceCreate
    \/ SubscriptionCreate
    \/ CheckoutFailure
    \/ PayPreference
    \/ AuthorizeSubscription
    \/ NextRecv

SpecCheckout == InitCheckout /\ [][NextCheckout]_vars

\* the references an approved payment may carry back: any object with or
\* without e, p and d, the JSON text null, and a text that is no JSON
ReferenceObject(e, p, d) ==
    (IF e # "" THEN [e |-> e] ELSE <<>>) @@
    (IF p # "" THEN [p |-> p] ELSE <<>>) @@
    (IF d # "" THEN [d |-> d] ELSE <<>>)

References ==
    { JSONstringify(ReferenceObject(e, p, d)) :
        e \in {"", "a@b.com", "c@d.com"},
        p \in {"", "individual", "profesional", "premium", "constructor"},
        d \in {"", "1m", "3m", "6m", "12m", "2m", "constructor"} } \cup
    { JSONstringify(Null), [text |-> "no json"], Null }

\* the processor holds an approved payment with any reference, and its
\* notification is waiting for the handler
InitRef ==
    /\ secret = Secret
    /\ run = SingleRun
    /\ co = IdleCheckout
    /\ \E ref \in References :
          mp = [EmptyProcessor EXCEPT !.payments = CheckoutId :>
                  [status |-> "approved", external_reference |-> ref,
                   transaction_amount |-> 40, currency_id |-> "USD"]]
    /\ \/ Fresh(StartDay, ProcessorNotification("payment", CheckoutId))
       \/ Licensed(StartDay - TickDays, StartDay, ProcessorNotification("payment", CheckoutId))

NextRef ==
    \/ \E h \in Handlers : ReceivePending(h)
    \/ \E h \in Handlers : PaymentGet(h)
    \/ \E h \in Handlers : GetUserByEmail(h)
    \/ \E h \in Handlers : CreateUser(h)
    \/ \E h \in Handlers : ReadExpiration(h)
    \/ \E h \in Handlers : UpdateUser(h)
    \/ \E h \in Handlers : PaymentSet(h)
    \/ \E h \in Handlers : SendActivationEmail(h)
    \/ \E h \in Handlers : ExternalFailure(h)

SpecRef == InitRef /\ [][NextRef]_vars

---------------------------------------------------------------------------
(* Properties of the license activator *)

\* iso + m calendar months, on the fields of the ISO date: the month field is
\* advanced by m and a day past the end of that month runs into the next
PlusMonths(iso, m) == toISOString(MakeDay(iso.y, iso.m - 1 + m, iso.d))

\* this step is handler h's license write: its db.update resolved
LicenseWrite(h) ==
    /\ hs[h].pc = "update"
    /\ hs'[h].pc # "update"
    /\ gen'[hs[h].uid] = gen[hs[h].uid] + 1

\* handler h has made its license write and is still inside activateLicense
Wrote(h) == hs[h].pc \in {"payment_set", "subscription_set", "send_email"}

\* C1: when the expiration E stored for the user is strictly later than the
\* moment of activation, the license write of a grant of m months stores
\* E + m months, whatever m is.
C1_ExtendsFromStoredExpiration ==
    [][\A h \in Handlers :
         LET E == StoredExpiration(db[hs[h].uid])
         IN  (LicenseWrite(h) /\ E # Null /\ NewDate(E) > hs[h].now)
             => StoredExpiration(db'[hs[h].uid]) = PlusMonths(E, hs[h].info.months)]_vars

\* a 6-month grant has been written on top of an expiration that was in the future
C1_Witness ==
    \E h \in Handlers :
        /\ Wrote(h)
        /\ hs[h].info.months = 6
        /\ hs[h].currentExp # Null
        /\ NewDate(hs[h].currentExp) > hs[h].now
        /\ StoredExpiration(db[hs[h].uid]) = PlusMonths(hs[h].currentExp, 6)

\* C2, first half: when no expiration is stored, or the stored one is not
\* strictly later than the moment of activation, the license write of a
\* grant of m months stores now + m months.
C2_RestartsFromNow ==
    [][\A h \in Handlers :
         LET E == StoredExpiration(db[hs[h].uid])
         IN  (LicenseWrite(h) /\ (E = Null \/ NewDate(E) <= hs[h].now))
             => StoredExpiration(db'[hs[h].uid])
                  = PlusMonths(toISOString(hs[h].now), hs[h].info.months)]_vars

\* a grant has been written for a user whose expiration had passed
C2_Witness ==
    \E h \in Handlers :
        /\ Wrote(h)
        /\ hs[h].currentExp # Null
        /\ NewDate(hs[h].currentExp) < hs[h].now
        /\ StoredExpiration(db[hs[h].uid])
             = PlusMonths(toISOString(hs[h].now), hs[h].info.months)

\* C2: ... the license write stores now + m months, and when the stored
\* expiration has passed it never stores that expiration + m months.
C2_NeverPastExpirationPlusMonths ==
    [][\A h \in Handlers :
         LET E == StoredExpiration(db[hs[h].uid])
         IN  /\ (LicenseWrite(h) /\ (E = Null \/ NewDate(E) <= hs[h].now))
                => StoredExpiration(db'[hs[h].uid])
                     = PlusMonths(toISOString(hs[h].now), hs[h].info.months)
             /\ (LicenseWrite(h) /\ E # Null /\ NewDate(E) < hs[h].now)
                => StoredExpiration(db'[hs[h].uid]) # PlusMonths(E, hs[h].info.months)]_vars

\* this step is the return of handler h from a completed activateLicense
Completes(h) ==
    /\ hs[h].pc \in {"update", "payment_set", "subscription_set", "send_email"}
    /\ hs'[h].pc = "idle"
    /\ lastDone'[hs[h].uid] # lastDone[hs[h].uid]

\* C3: when the notification of an approved payment id is handled to its end
\* and is then delivered and handled again, nothing else having written the
\* user's license in between, the expiration stored after the second
\* handling is the one stored after the first.
C3_SamePaymentTwiceExtendsOnce ==
    [][\A h \in Handlers :
         LET u     == hs[h].uid
             first == hs[h].snap[u]
         IN  (/\ Completes(h)
              /\ hs[h].info.paymentId # ""
              /\ first.pid = hs[h].info.paymentId
              /\ gen'[u] = first.gen + 1)
             => StoredExpiration(db'[u]) = first.exp]_vars

\* C4: no license write makes the stored expiration earlier than the one
\* stored immediately before that write, in any interleaving of handlers.
C4_WriteNeverShortens ==
    [][\A h \in Handlers :
         LET E == StoredExpiration(db[hs[h].uid])
         IN  (LicenseWrite(h) /\ E # Null)
             => NewDate(StoredExpiration(db'[hs[h].uid])) >= NewDate(E)]_vars

\* C5: a payment-history entry, once written, is never changed by a later step.
C5_PaymentEntryImmutable ==
    [][\A u \in Uids : \A p \in DOMAIN StoredPayments(db[u]) :
         /\ p \in DOMAIN StoredPayments(db'[u])
         /\ StoredPayments(db'[u])[p] = StoredPayments(db[u])[p]]_vars

---------------------------------------------------------------------------
(* Properties of the webhook receiver, for one request of any shape *)

AllIdle == \A h \in Handlers : hs[h].pc = "idle"

\* the v1 value of the header decodes to the digest of the request's manifest
SignatureMatches(req, key) ==
    BufferFromHex(SignaturePart(req.xSignature, "v1", <<>>))
      = Hmac(key, Manifest(RequestId(req), req.xRequestId,
                           SignaturePart(req.xSignature, "ts", "")))

HandledTopics ==
    {"payment", "preapproval", "subscription_preapproval",
     "subscription_authorized_payment"}

\* a POST that names one of the handled topics and an event id
Classifiable(req) ==
    /\ req.method = "POST"
    /\ RequestTopic(req) \in HandledTopics
    /\ RequestId(req) # ""

\* C6: every request handed to the handler is answered 200, and no handler
\* ever lets an exception out, whatever it met on the way.
C6_AlwaysAnswers200 ==
    [][/\ delivered' # delivered
          => \E h \in Handlers : hs[h].pc = "idle" /\ hs'[h].res = 200
       /\ \A h \in Handlers :
             /\ ~hs'[h].threw
             /\ (hs'[h].pc # "idle" => hs'[h].res = 200)]_vars

\* the handler has returned after a call failed between the creation of the
\* identity and the license write
C6_Witness ==
    /\ delivered = 1
    /\ AllIdle
    /\ \E h \in Handlers : hs[h].res = 200 /\ ~hs[h].threw
    /\ "auth.createUser" \in calls
    /\ auth # {}
    /\ \A u \in Uids : db[u] = <<>>

\* the v1 value of the header is the digest of the request's manifest written
\* in hex, in either case, and nothing else
V1IsDigest(req, key) ==
    LET v1     == SignaturePart(req.xSignature, "v1", <<>>)
        digest == Hmac(key, Manifest(RequestId(req), req.xRequestId,
                                     SignaturePart(req.xSignature, "ts", "")))
    IN  /\ Len(v1) = Len(digest)
        /\ \A i \in 1..Len(v1) : "hex" \in DOMAIN v1[i] /\ v1[i].hex = digest[i]

\* C7: with a secret configured, a request whose signature header has a v1
\* value that is not the digest of its manifest (or has none) is discarded:
\* no handler leaves idle, no external call is made, no identity is created
\* and no record is read or written.
C7_BadSignatureDiscarded ==
    [][(/\ httpIn # Null
        /\ secret # ""
        /\ httpIn.xSignature # <<>>
        /\ ~V1IsDigest(httpIn, secret))
       => /\ \A h \in Handlers : hs'[h].pc = "idle"
          /\ UNCHANGED <<auth, db, outbox, calls, gen>>]_vars

\* what does hold: a request whose v1 value does not decode to the digest of
\* its manifest is discarded
C7_DecodedMismatchDiscarded ==
    [][(/\ httpIn # Null
        /\ secret # ""
        /\ httpIn.xSignature # <<>>
        /\ ~SignatureMatches(httpIn, secret))
       => /\ \A h \in Handlers : hs'[h].pc = "idle"
          /\ UNCHANGED <<auth, db, outbox, calls, gen>>]_vars

\* a POST for an approved payment, signed with another key, has been answered
C7_Witness ==
    /\ delivered = 1
    /\ secret # ""
    /\ httpIn # Null
    /\ Classifiable(httpIn)
    /\ RequestTopic(httpIn) = "payment"
    /\ RequestId(httpIn) = "1"
    /\ SignaturePart(httpIn.xSignature, "v1", <<>>) # <<>>
    /\ ~SignatureMatches(httpIn, secret)
    /\ AllIdle
    /\ \E h \in Handlers : hs[h].res = 200
    /\ calls = {}

\* the request went past signature verification: a handler is resolving it,
\* or has made a call for it
Proceeded == ~AllIdle \/ calls # {}

\* C8: a classifiable request goes past signature verification exactly when
\* no secret is configured, or it carries no signature header, or its header
\* carries the digest of its manifest: the first two are the only cases in
\* which a request passes without a matching hash, and such a request can go
\* on to change the license.
C8_PassThroughCases ==
    (delivered = 1 /\ httpIn # Null /\ Classifiable(httpIn))
    => (Proceeded <=> (\/ secret = ""
                       \/ httpIn.xSignature = <<>>
                       \/ SignatureMatches(httpIn, secret)))

\* with a secret configured, a payment notification without a signature
\* header has extended the license of a@b.com
C8_Witness ==
    /\ secret # ""
    /\ httpIn # Null
    /\ httpIn.xSignature = <<>>
    /\ RequestTopic(httpIn) = "payment"
    /\ "db.update" \in calls
    /\ "(rejected)" \notin calls
    /\ gen[UidOf["a@b.com"]] > 0
    /\ StoredExpiration(db[UidOf["a@b.com"]]) # Null

ResolverCalls == {"Payment.get", "PreApproval.get", "fetch authorized_payment"}

\* the processor lookups of the path a topic is dispatched to
PathCalls(topic) ==
    IF topic = "payment" THEN {"Payment.get"}
    ELSE IF topic \in {"preapproval", "subscription_preapproval"} THEN {"PreApproval.get"}
    ELSE IF topic = "subscription_authorized_payment"
         THEN {"fetch authorized_payment", "PreApproval.get"}
    ELSE {}

\* the request is a POST that passes signature verification
Verified(req) ==
    /\ req.method = "POST"
    /\ \/ secret = ""
       \/ req.xSignature = <<>>
       \/ SignatureMatches(req, secret)

\* C9: a verified notification with a topic and an id is dispatched by its
\* topic: payment to the payment lookup, preapproval and
\* subscription_preapproval to the preapproval lookup,
\* subscription_authorized_payment to the authorized-payment lookup; no
\* lookup of another path is ever made for it; and a notification with any
\* other topic, or without topic or id, causes no call and changes nothing.
C9_DispatchByTopic ==
    [][httpIn # Null =>
         LET t  == RequestTopic(httpIn)
             id == RequestId(httpIn)
         IN  /\ (delivered = 0 /\ delivered' = 1 /\ Verified(httpIn) /\ id # "")
                => /\ t = "payment"
                        => \E h \in Handlers :
                              hs'[h].pc = "payment_get" /\ hs'[h].id = id
                   /\ t \in {"preapproval", "subscription_preapproval"}
                        => \E h \in Handlers :
                              hs'[h].pc = "preapproval_get" /\ hs'[h].id = id
                   /\ t = "subscription_authorized_payment"
                        => \E h \in Handlers :
                              hs'[h].pc = "authorized_fetch" /\ hs'[h].id = id
             /\ (calls' \cap ResolverCalls) \subseteq PathCalls(t)
             /\ (t \notin HandledTopics \/ id = "")
                => /\ \A h \in Handlers : hs'[h].pc = "idle"
                   /\ UNCHANGED <<auth, db, outbox, calls, gen>>]_vars

\* a verified notification with a topic the system does not handle has been
\* answered and nothing was called
C9_Witness ==
    /\ delivered = 1
    /\ httpIn # Null
    /\ Verified(httpIn)
    /\ RequestTopic(httpIn) = "merchant_order"
    /\ RequestId(httpIn) = "1"
    /\ AllIdle
    /\ \E h \in Handlers : hs[h].res = 200
    /\ calls = {}

\* the request notifies a payment the processor holds as not approved
NotApprovedPayment(req) ==
    /\ Classifiable(req)
    /\ RequestTopic(req) = "payment"
    /\ RequestId(req) \in DOMAIN MP_PAYMENTS
    /\ MP_PAYMENTS[RequestId(req)].status # "approved"

\* C10: a payment notification whose payment is not approved makes at most
\* the payment lookup: no identity is created and the license record, the
\* payment history and the subscription record of every user stay as they are.
C10_OnlyApprovedPaymentsMutate ==
    [][(httpIn # Null /\ NotApprovedPayment(httpIn))
       => /\ UNCHANGED <<auth, db, outbox, gen>>
          /\ calls' \subseteq {"Payment.get", "(rejected)"}
          /\ \A h \in Handlers : hs'[h].pc \in {"idle", "payment_get"}]_vars

\* the pending payment "3" of the licensed user a@b.com was looked up, and
\* the handler returned leaving the record as it was
C10_Witness ==
    /\ delivered = 1
    /\ httpIn # Null
    /\ NotApprovedPayment(httpIn)
    /\ RequestId(httpIn) = "3"
    /\ calls = {"Payment.get"}
    /\ AllIdle
    /\ db[UidOf["a@b.com"]] = LicensedRecord(StartDay)

---------------------------------------------------------------------------
(* Properties of the checkout endpoints *)

\* the catalog as the specification lists it: months of a duration, tier of
\* a duration, device cap of a plan
ListedMonths(duration) ==
    IF duration = "1m" THEN 1 ELSE IF duration = "3m" THEN 3
    ELSE IF duration = "6m" THEN 6 ELSE 12

ListedTier(duration) == IF duration = "12m" THEN "Annual" ELSE "Monthly"

ListedDeviceCap(plan) == IF plan = "profesional" THEN 3 ELSE 1

\* a one-time checkout request the catalog has an item for
ValidCheckout(req) ==
    /\ req # Null
    /\ req.endpoint = "create-preference"
    /\ req.method = "POST"
    /\ req.email \in Emails
    /\ req.plan \in {"individual", "profesional"}
    /\ req.duration \in {"1m", "3m", "6m", "12m"}

\* the expiration a grant of m months gives to a user whose stored expiration is E
GrantedExpiration(E, today, m) ==
    IF E # Null /\ NewDate(E) > today THEN PlusMonths(E, m)
    ELSE PlusMonths(toISOString(today), m)

\* C11: for a valid one-time checkout request, the license write made for the
\* payment that echoes the created reference is for the email of the request
\* and stores the months the catalog lists for the duration, the tier of the
\* duration and the device cap of the plan; and the payment-history write
\* stores an entry under the payment id with the plan, duration and price.
C11_ReferenceRoundTrips ==
    [][ValidCheckout(co.req) =>
         \A h \in Handlers :
            LET u == UidOf[co.req.email]
            IN  /\ LicenseWrite(h)
                   => /\ hs[h].email = co.req.email
                      /\ hs[h].uid = u
                      /\ db'[u].Email = co.req.email
                      /\ db'[u].IsActive
                      /\ db'[u].ExpirationDate
                           = GrantedExpiration(StoredExpiration(db[u]), hs[h].now,
                                               ListedMonths(co.req.duration))
                      /\ db'[u].LicenseType = ListedTier(co.req.duration)
                      /\ db'[u].MaxDevices = ListedDeviceCap(co.req.plan)
                      /\ hs'[h].pc = "payment_set"
                /\ (hs[h].pc = "payment_set" /\ db' # db)
                   => /\ DOMAIN StoredPayments(db'[u])
                           = DOMAIN StoredPayments(db[u]) \cup {CheckoutId}
                      /\ StoredPayments(db'[u])[CheckoutId].plan = co.req.plan
                      /\ StoredPayments(db'[u])[CheckoutId].duration = co.req.duration
                      /\ StoredPayments(db'[u])[CheckoutId].amount
                           = CATALOG[co.req.plan][co.req.duration].price
                      /\ StoredPayments(db'[u])[CheckoutId].type = "onetime"]_vars

\* the checkout of individual / 3m for the new email a@b.com was paid: a new
\* user exists with expiration now + 3 months, tier Monthly, one device and a
\* payment entry of 40
C11_Witness ==
    /\ ValidCheckout(co.req)
    /\ co.req.email = "a@b.com" /\ co.req.plan = "individual" /\ co.req.duration = "3m"
    /\ AllIdle
    /\ auth = {"a@b.com"}
    /\ gen[UidOf["a@b.com"]] = 1
    /\ "CreatedAt" \in DOMAIN db[UidOf["a@b.com"]]
    /\ db[UidOf["a@b.com"]].ExpirationDate = PlusMonths(toISOString(now), 3)
    /\ db[UidOf["a@b.com"]].LicenseType = "Monthly"
    /\ db[UidOf["a@b.com"]].MaxDevices = 1
    /\ CheckoutId \in DOMAIN StoredPayments(db[UidOf["a@b.com"]])
    /\ StoredPayments(db[UidOf["a@b.com"]])[CheckoutId].amount = 40

\* the catalog has an item for the pair
InCatalog(plan, duration) ==
    /\ plan \in {"individual", "profesional"}
    /\ duration \in {"1m", "3m", "6m", "12m"}

\* the outcome of the one-time checkout endpoint for its request, by the
\* first rule that applies
ListedOutcome(c) ==
    LET r == c.req
    IN  IF r.method = "OPTIONS"
        THEN c.pc = "idle" /\ c.creates = 0
             /\ (c.res # Null => c.res = Response(200, Null))
        ELSE IF r.method # "POST"
        THEN c.pc = "idle" /\ c.creates = 0
             /\ (c.res # Null => c.res.status = 405)
        ELSE IF r.email = "" \/ r.plan = "" \/ r.duration = ""
        THEN c.pc = "idle" /\ c.creates = 0
             /\ (c.res # Null => c.res = Response(400,
                                    [error |-> "Se requieren: email, plan y duration"]))
        ELSE IF r.email \notin Emails
        THEN c.pc = "idle" /\ c.creates = 0
             /\ (c.res # Null => c.res = Response(400, [error |-> "Email invalido"]))
        ELSE IF ~InCatalog(r.plan, r.duration)
        THEN c.pc = "idle" /\ c.creates = 0
             /\ (c.res # Null => c.res = Response(400, [error |-> "Combinacion invalida"]))
        ELSE c.res # Null
             => /\ c.creates = 1
                /\ \/ c.res.status = 200 /\ "init_point" \in DOMAIN c.res.body
                   \/ c.res = Response(500,
                                [error |-> "No se pudo crear la preferencia de pago"])

\* C12: the one-time checkout endpoint answers OPTIONS with an empty 200,
\* another non-POST method with 405, a missing field with 400, an email not
\* shaped local@domain.tld with 400, a pair the catalog does not have with
\* 400, all without calling the processor; a valid POST calls it once and
\* answers 200 with the session URL, or 500 with a generic message.
C12_ValidationOrder ==
    (co.req # Null /\ co.req.endpoint = "create-preference")
    => /\ ListedOutcome(co)
       /\ (co.creates = 0 /\ co.pc = "idle") => mp.preferences = <<>>

\* what does hold: the same, for plans and durations that do not name a
\* property every object inherits
C12_ExceptInheritedNames ==
    (/\ co.req # Null
     /\ co.req.endpoint = "create-preference"
     /\ co.req.plan \notin DOMAIN ObjectPrototype
     /\ co.req.duration \notin DOMAIN ObjectPrototype)
    => /\ ListedOutcome(co)
       /\ (co.creates = 0 /\ co.pc = "idle") => mp.preferences = <<>>

---------------------------------------------------------------------------
(* Properties of concurrent handlings *)

\* the date handler h extends from: what it read, or its own now
StaleBase(h) == toISOString(BaseDate(hs[h].currentExp, hs[h].now))

\* h and g handle the same notification for the same user, both read the
\* expiration before either wrote, g has written and h is about to
RacingDuplicate(h, g) ==
    /\ h # g
    /\ hs[h].pc = "update"
    /\ Wrote(g)
    /\ hs[h].uid = hs[g].uid
    /\ hs[h].info.paymentId = hs[g].info.paymentId
    /\ hs[h].info.preapprovalId = hs[g].info.preapprovalId
    /\ hs[h].readGen = hs[g].readGen
    /\ gen[hs[h].uid] = hs[h].readGen + 1

\* C13: when two handlings of a duplicate notification both read the stored
\* expiration before either writes, the second write stores the stale base
\* plus the grant period counted twice.
C13_RaceCountsPeriodTwice ==
    [][\A h, g \in Handlers :
         (RacingDuplicate(h, g) /\ LicenseWrite(h))
         => StoredExpiration(db'[hs[h].uid])
              = PlusMonths(PlusMonths(StaleBase(h), hs[h].info.months),
                           hs[h].info.months)]_vars

\* C13, what the interleaving gives: the second write stores the stale base
\* plus one grant period, and when both handlers read the same clock it
\* stores again the value the first write stored.
C13_RaceCountsPeriodOnce ==
    [][\A h, g \in Handlers :
         (RacingDuplicate(h, g) /\ LicenseWrite(h))
         => /\ StoredExpiration(db'[hs[h].uid])
                 = PlusMonths(StaleBase(h), hs[h].info.months)
            /\ hs[h].now = hs[g].now
                 => StoredExpiration(db'[hs[h].uid]) = StoredExpiration(db[hs[h].uid])]_vars

\* two handlers of the same payment both read before either wrote, and both
\* have written: the expiration is the stale base plus one period
C13_Witness ==
    \E h, g \in Handlers :
        /\ h # g
        /\ Wrote(h) /\ Wrote(g)
        /\ hs[h].uid = hs[g].uid
        /\ hs[h].info.paymentId # ""
        /\ hs[h].info.paymentId = hs[g].info.paymentId
        /\ hs[h].readGen = hs[g].readGen
        /\ gen[hs[h].uid] = hs[h].readGen + 2
        /\ StoredExpiration(db[hs[h].uid]) = PlusMonths(StaleBase(h), hs[h].info.months)

---------------------------------------------------------------------------
(* Properties of the calendar arithmetic *)

\* C14: when the stored expiration E is strictly later than now, the
\* expiration written for a grant of m months (E + m months, with day
\* overflow rolling into the following month) is never earlier than
\* now + m months.
C14_ExtensionNotShorterThanFromNow ==
    [][\A h \in Handlers :
         LET E == StoredExpiration(db[hs[h].uid])
         IN  (LicenseWrite(h) /\ E # Null /\ NewDate(E) > hs[h].now)
             => NewDate(StoredExpiration(db'[hs[h].uid]))
                  >= NewDate(PlusMonths(toISOString(hs[h].now), hs[h].info.months))]_vars

\* what does hold: the extension is never earlier than the expiration it
\* extends, and is later than now
C14_ExtensionLaterThanStored ==
    [][\A h \in Handlers :
         LET E == StoredExpiration(db[hs[h].uid])
         IN  (LicenseWrite(h) /\ E # Null /\ NewDate(E) > hs[h].now)
             => /\ NewDate(StoredExpiration(db'[hs[h].uid])) > NewDate(E)
                /\ NewDate(StoredExpiration(db'[hs[h].uid])) > hs[h].now]_vars

---------------------------------------------------------------------------
(* Properties of the subscription paths *)

\* a request the subscription initiator creates a subscription for
ValidSubscription(req) ==
    /\ req # Null
    /\ req.endpoint = "create-subscription"
    /\ req.method = "POST"
    /\ req.email \in Emails
    /\ req.plan \in {"individual", "profesional"}

\* the preapproval made on the created subscription is authorized and has a payer email
Actionable(presub) == presub.status = "authorized" /\ presub.payer_email # ""

\* C15: for a subscription created by the initiator for plan P, the license
\* is written only when the preapproval is authorized and carries a payer
\* email; the write grants 1 month of tier Monthly to that email with the
\* device cap of P, the plan inferred from the amount (profesional exactly
\* when it is at least 25) is P, no payment-history entry is written, and
\* the subscription record names P.
C15_SubscriptionAuthorization ==
    [][ValidSubscription(co.req) =>
         /\ \A h \in Handlers :
              LET u      == hs[h].uid
                  presub == mp.preapprovals[CheckoutId]
              IN  /\ LicenseWrite(h)
                     => /\ Actionable(presub)
                        /\ hs[h].email = presub.payer_email
                        /\ db'[u].ExpirationDate
                             = GrantedExpiration(StoredExpiration(db[u]), hs[h].now, 1)
                        /\ db'[u].LicenseType = "Monthly"
                        /\ hs[h].info.plan = co.req.plan
                        /\ (hs[h].info.plan = "profesional"
                              <=> presub.auto_recurring.transaction_amount >= 25)
                        /\ db'[u].MaxDevices = ListedDeviceCap(co.req.plan)
                        /\ hs'[h].pc = "subscription_set"
                  /\ (hs[h].pc = "subscription_set" /\ db' # db)
                     => /\ db'[u].subscription.plan = co.req.plan
                        /\ db'[u].subscription.preapprovalId = CheckoutId
         /\ \A u \in Uids : StoredPayments(db'[u]) = StoredPayments(db[u])
         /\ (mp.preapprovals # <<>> /\ ~Actionable(mp.preapprovals[CheckoutId]))
            => UNCHANGED <<auth, db, outbox, gen>>]_vars

\* a profesional subscription created for the new email a@b.com was
\* authorized: one month, Monthly, three devices, no payment entry
C15_Witness ==
    /\ ValidSubscription(co.req)
    /\ co.req.email = "a@b.com" /\ co.req.plan = "profesional"
    /\ mp.authorized = <<>>
    /\ AllIdle
    /\ gen[UidOf["a@b.com"]] = 1
    /\ "CreatedAt" \in DOMAIN db[UidOf["a@b.com"]]
    /\ db[UidOf["a@b.com"]].ExpirationDate = PlusMonths(toISOString(now), 1)
    /\ db[UidOf["a@b.com"]].LicenseType = "Monthly"
    /\ db[UidOf["a@b.com"]].MaxDevices = 3
    /\ "subscription" \in DOMAIN db[UidOf["a@b.com"]]
    /\ db[UidOf["a@b.com"]].subscription.plan = "profesional"
    /\ StoredPayments(db[UidOf["a@b.com"]]) = <<>>

\* a notification of a monthly charge of a subscription
Renewal(req) ==
    /\ req # Null
    /\ Classifiable(req)
    /\ RequestTopic(req) = "subscription_authorized_payment"
    /\ RequestId(req) \in DOMAIN AuthorizedPayments

\* the authorized payment was fetched, is processed and names its preapproval
Renews(ap) == ap.ok /\ ap.status = "processed" /\ ap.preapproval_id # ""

\* C16: on the renewal path, when the authorized payment is fetched, is
\* processed and names a parent preapproval, the handler goes on exactly as
\* the handler of a subscription-authorization notification for that parent
\* does, and writes (one month) only if the parent is authorized and has a
\* payer email; in every other case no identity or record changes.
C16_RenewalReusesAuthorization ==
    [][Renewal(httpIn) =>
         LET ap == AuthorizedPayments[RequestId(httpIn)]
         IN  /\ \A h \in Handlers :
                  /\ (/\ hs[h].pc = "authorized_fetch"
                      /\ hs'[h].pc # "authorized_fetch"
                      /\ "(rejected)" \notin calls')
                     => /\ hs'[h] = IF Renews(ap)
                                    THEN HandlerEntry(
                                           Request("POST", <<>>, "preapproval",
                                                   ap.preapproval_id, "", ""),
                                           "", hs[h].snap)
                                    ELSE Returned
                        /\ UNCHANGED <<auth, db, outbox, gen>>
                  /\ LicenseWrite(h)
                     => /\ hs[h].info.months = 1
                        /\ hs[h].info.preapprovalId = ap.preapproval_id
                        /\ Actionable(Preapprovals[ap.preapproval_id])
             /\ ~Renews(ap) => UNCHANGED <<auth, db, outbox, gen>>
             /\ (Renews(ap) /\ ~Actionable(Preapprovals[ap.preapproval_id]))
                => UNCHANGED <<auth, db, outbox, gen>>]_vars

\* the processed charge "1" of preapproval "1" was notified for the licensed
\* user a@b.com: the license is one month longer and the subscription record
\* names the parent preapproval
C16_Witness ==
    /\ Renewal(httpIn)
    /\ RequestId(httpIn) = "1"
    /\ AllIdle
    /\ {"fetch authorized_payment", "PreApproval.get", "db.update", "db.set subscription"}
         \subseteq calls
    /\ "(rejected)" \notin calls
    /\ gen[UidOf["a@b.com"]] = 2
    /\ db[UidOf["a@b.com"]].ExpirationDate
         = PlusMonths(LicensedRecord(StartDay).ExpirationDate, 1)
    /\ db[UidOf["a@b.com"]].subscription.preapprovalId = "1"

---------------------------------------------------------------------------
(* Properties of the stored reference of a one-time payment *)

\* the reference the approved payment carries, as handlePayment reads it
StoredReference == ParseReference(mp.payments[CheckoutId].external_reference)

\* the reference gives no email: it is absent, no JSON, JSON null, or an
\* object without e
WithoutEmail(ref) == ref = Null \/ Field(ref, "e") = ""

\* C17: an approved payment whose reference cannot be parsed or has no email
\* is dropped: the only call made is Payment.get, no identity is looked up or
\* created and no record is written; a reference with an email and no plan
\* is handled as plan individual (one device), one with an email and no
\* duration as 1m: one month, tier Monthly, and the license write adds one
\* month.
C17_ReferenceWithoutEmailDropped ==
    [][LET ref == StoredReference
       IN  /\ WithoutEmail(ref)
              => /\ calls' \subseteq {"Payment.get", "(rejected)"}
                 /\ UNCHANGED <<auth, db, outbox, gen>>
                 /\ \A h \in Handlers : hs'[h].pc \in {"idle", "payment_get"}
           /\ ~WithoutEmail(ref)
              => \A h \in Handlers :
                   /\ (hs[h].pc = "payment_get" /\ hs'[h].pc = "get_user")
                      => /\ hs'[h].email = ref.e
                         /\ "p" \notin DOMAIN ref
                            => /\ hs'[h].info.plan = "individual"
                               /\ hs'[h].info.maxDevices = 1
                         /\ "d" \notin DOMAIN ref
                            => /\ hs'[h].info.duration = "1m"
                               /\ hs'[h].info.months = 1
                               /\ hs'[h].info.licenseType = "Monthly"
                   /\ (LicenseWrite(h) /\ "d" \notin DOMAIN ref)
                      => /\ db'[hs[h].uid].ExpirationDate
                              = GrantedExpiration(StoredExpiration(db[hs[h].uid]),
                                                  hs[h].now, 1)
                         /\ db'[hs[h].uid].LicenseType = "Monthly"
                   /\ (LicenseWrite(h) /\ "p" \notin DOMAIN ref)
                      => db'[hs[h].uid].MaxDevices = 1]_vars

\* the notification of an approved payment whose reference is no JSON was
\* handled: Payment.get was called and nothing else happened
C17_Witness ==
    /\ mp.payments[CheckoutId].external_reference = [text |-> "no json"]
    /\ AllIdle
    /\ \E h \in Handlers : hs[h].res = 200
    /\ calls = {"Payment.get"}
    /\ auth = {}
    /\ db = [u \in Uids |-> <<>>]
    /\ outbox = {}

\* a reference {e} with neither plan nor duration was handled for a new
\* user: one month, Monthly, one device
C17_DefaultsApplied ==
    /\ mp.payments[CheckoutId].external_reference
         = JSONstringify([e |-> "a@b.com"])
    /\ AllIdle
    /\ "db.set payment" \in calls
    /\ db[UidOf["a@b.com"]].LicenseType = "Monthly"
    /\ db[UidOf["a@b.com"]].MaxDevices = 1
    /\ db[UidOf["a@b.com"]].payments[CheckoutId].plan = "individual"
    /\ db[UidOf["a@b.com"]].payments[CheckoutId].duration = "1m"

\* the grant listed for a duration and a plan, unknown ones included
ExpectedMonths(duration) ==
    IF duration \in {"1m", "3m", "6m", "12m"} THEN ListedMonths(duration) ELSE 1

ExpectedTier(duration) == IF duration = "12m" THEN "Annual" ELSE "Monthly"

ExpectedDeviceCap(plan) == IF plan = "profesional" THEN 3 ELSE 1

\* handler h's Payment.get returned an approved payment with an email
Described(h) == hs[h].pc = "payment_get" /\ hs'[h].pc = "get_user"

\* C18: the grant descriptor built for a one-time payment has 1, 3, 6 months
\* and tier Monthly for 1m, 3m, 6m, 12 months and tier Annual for 12m, and
\* 1 month and Monthly for any other duration; max devices 1 for individual,
\* 3 for profesional and 1 for any other plan.
C18_GrantDescriptorMapping ==
    [][\A h \in Handlers :
         Described(h)
         => LET info == hs'[h].info
            IN  /\ MonthsIsNumber(info)
                /\ info.months = ExpectedMonths(info.duration)
                /\ info.licenseType = ExpectedTier(info.duration)
                /\ Storable(info)
                /\ info.maxDevices = ExpectedDeviceCap(info.plan)]_vars

\* the mapping of C18 holds for every duration and every plan that is not the
\* name of a property object literals inherit
C18_ExceptInheritedNames ==
    [][\A h \in Handlers :
         Described(h)
         => LET info == hs'[h].info
            IN  /\ info.duration \notin DOMAIN ObjectPrototype
                   => /\ info.months = ExpectedMonths(info.duration)
                      /\ info.licenseType = ExpectedTier(info.duration)
                /\ info.plan \notin DOMAIN ObjectPrototype
                   => info.maxDevices = ExpectedDeviceCap(info.plan)]_vars

\* the payment of an unknown email with duration "constructor" was handled:
\* the identity exists and no license was written
C18_InheritedDurationHandled ==
    /\ mp.payments[CheckoutId].external_reference
         = JSONstringify([e |-> "a@b.com", p |-> "individual", d |-> "constructor"])
    /\ AllIdle
    /\ "db.once" \in calls
    /\ "(rejected)" \notin calls
    /\ "a@b.com" \in auth
    /\ db[UidOf["a@b.com"]] = <<>>

---------------------------------------------------------------------------
(* Properties of the writes to users/{uid} *)

LicenseFields ==
    {"Email", "IsActive", "LicenseType", "ExpirationDate", "MaxDevices", "UpdatedAt"}

CreationFields == {"CreatedAt", "ValidationCount", "activations"}

\* record `new` is record `old` except for the fields in `written`
SameExcept(old, new, written) ==
    /\ DOMAIN old \subseteq DOMAIN new
    /\ DOMAIN new \subseteq DOMAIN old \cup written
    /\ \A k \in DOMAIN old \ written : new[k] = old[k]

\* handler h's await at `pc` resolved in this step, and no call was rejected
Resolved(h, pc) ==
    /\ hs[h].pc = pc
    /\ hs'[h].pc # pc
    /\ "(rejected)" \notin calls'

\* C19: a user's record changes only by a write of an activation for that
\* user, and each write keeps the rest of the record: the license write of an
\* activation that found the identity sets the six license fields and leaves
\* every other field, the creation timestamp, validation counter, activation
\* set and payment history among them; the license write of an activation
\* that created the identity also sets the creation timestamp, validation
\* counter 0 and an empty activation set; the payment-history write changes
\* only the entry of this payment id, the subscription write only the
\* subscription record.
C19_RecordMutatedNeverReplaced ==
    [][\A u \in Uids :
         db'[u] # db[u]
         => \E h \in Handlers :
              LET r == hs[h]
              IN  /\ r.uid = u
                  /\ \/ /\ Resolved(h, "update")
                        /\ ~r.isNewUser
                        /\ SameExcept(db[u], db'[u], LicenseFields)
                        /\ \A k \in CreationFields : k \in DOMAIN db'[u] => k \in DOMAIN db[u]
                        /\ StoredPayments(db'[u]) = StoredPayments(db[u])
                     \/ /\ Resolved(h, "update")
                        /\ r.isNewUser
                        /\ SameExcept(db[u], db'[u], LicenseFields \cup CreationFields)
                        /\ db'[u].CreatedAt = toISOString(r.now)
                        /\ db'[u].ValidationCount = 0
                        /\ db'[u].activations = {}
                     \/ /\ Resolved(h, "payment_set")
                        /\ SameExcept(db[u], db'[u], {"payments"})
                        /\ SameExcept(StoredPayments(db[u]), db'[u].payments,
                                      {r.info.paymentId})
                     \/ /\ Resolved(h, "subscription_set")
                        /\ SameExcept(db[u], db'[u], {"subscription"})]_vars

\* payment "1" was activated for the licensed user a@b.com: the record has
\* both payment entries, a later expiration, and the creation timestamp,
\* validation counter and activation set it had
C19_Witness ==
    /\ AllIdle
    /\ {"db.update", "db.set payment"} \subseteq calls
    /\ gen[UidOf["a@b.com"]] = 2
    /\ LET rec == db[UidOf["a@b.com"]]
       IN  /\ DOMAIN rec.payments = {"1", "2"}
           /\ rec.ValidationCount = 3
           /\ rec.activations = {"device-1"}
           /\ rec.CreatedAt = rec.payments["2"].date
           /\ rec.UpdatedAt = rec.payments["1"].date
           /\ rec.CreatedAt # rec.UpdatedAt

---------------------------------------------------------------------------
(* Properties of the activation email *)

WritePcs == {"update", "payment_set", "subscription_set"}

\* the record of user u holds every write the grant of handler-state r asks for
WritesCompleted(r, record) ==
    /\ StoredExpiration(record) = r.newExpDate
    /\ r.info.paymentId # "" => r.info.paymentId \in DOMAIN StoredPayments(record)
    /\ r.info.preapprovalId # ""
       => /\ "subscription" \in DOMAIN record
          /\ record.subscription.preapprovalId = r.info.preapprovalId

---------------------------------------------------------------------------
(* Properties of the subscription record and of the order of the writes *)

\* users/{uid}/subscription, or null
StoredSubscription(record) ==
    IF "subscription" \in DOMAIN record THEN record.subscription ELSE Null

LicensePersisted(record) ==
    /\ "IsActive" \in DOMAIN record
    /\ record.IsActive
    /\ StoredExpiration(record) # Null

\* C22: in every reachable state, states after a rejected call included, a
\* user with a payment-history entry has a persisted license: the active
\* flag is true and an expiration is present.
C22_PaymentEntryImpliesLicense ==
    \A u \in Uids :
        StoredPayments(db[u]) # <<>> => LicensePersisted(db[u])

\* C22, the order behind it: a payment-history entry is written only by an
\* activation whose license write was made after its read of the expiration.
C22_LicenseWrittenFirst ==
    [][\A u \in Uids :
         StoredPayments(db'[u]) # StoredPayments(db[u])
         => \E h \in Handlers :
              /\ hs[h].uid = u
              /\ hs[h].pc = "payment_set"
              /\ gen[u] > hs[h].readGen
              /\ LicensePersisted(db[u])]_vars

\* the converse fails: the payment-history write of the only delivered
\* notification was rejected after its license write, so a@b.com has a
\* persisted license and no payment-history entry
C22_Witness ==
    /\ AllIdle
    /\ delivered = 1
    /\ {"db.update", "db.set payment", "(rejected)"} \subseteq calls
    /\ gen[UidOf["a@b.com"]] = 1
    /\ LicensePersisted(db[UidOf["a@b.com"]])
    /\ StoredPayments(db[UidOf["a@b.com"]]) = <<>>

\* C23: every license record persisted for an identity the handler created
\* carries the creation timestamp, the validation counter and the activation
\* set, also after a handling that failed between creating the identity and
\* the license write was followed by a second delivery.
C23_CreatedRecordsInitialised ==
    \A e \in auth :
        db[UidOf[e]] # <<>> => CreationFields \subseteq DOMAIN db[UidOf[e]]

\* the first handling of a payment of a new email created the identity and
\* was then rejected before its license write; the second delivery wrote the
\* license
C23_RetriedAfterCreation ==
    /\ AllIdle
    /\ delivered = MaxDeliveries
    /\ {"auth.createUser", "(rejected)", "db.update"} \subseteq calls
    /\ gen[UidOf["a@b.com"]] = 1
    /\ LicensePersisted(db[UidOf["a@b.com"]])
    /\ "CreatedAt" \notin DOMAIN db[UidOf["a@b.com"]]

\* handler h's activation returns normally in this step
ReturnsNormally(h) ==
    /\ hs[h].pc \in WritePcs \cup {"send_email"}
    /\ Resolved(h, hs[h].pc)
    /\ hs'[h].pc = "idle"

\* C24: the license write of an activation stores the tier and the device
\* cap of its grant whatever was stored before, with the expiration extended
\* from the stored one when that is in the future, and when the activation
\* completes the record still has that tier and that device cap.
C24_GrantOverwritesTierAndCap ==
    [][\A h \in Handlers :
         LET r == hs[h]
             u == r.uid
         IN  /\ LicenseWrite(h)
                => /\ db'[u].LicenseType = r.info.licenseType
                   /\ db'[u].MaxDevices = r.info.maxDevices
                   /\ db'[u].ExpirationDate
                        = GrantedExpiration(StoredExpiration(db[u]), r.now, r.info.months)
             /\ ReturnsNormally(h)
                => /\ db'[u].LicenseType = r.info.licenseType
                   /\ db'[u].MaxDevices = r.info.maxDevices]_vars

\* a@b.com, stored as Annual with three devices and an expiration in the
\* future, paid for individual / 1m: the expiration is one month later and
\* the record is Monthly with one device
C24_Witness ==
    /\ AllIdle
    /\ co.req # Null
    /\ co.req.plan = "individual"
    /\ co.req.duration = "1m"
    /\ "db.set payment" \in calls
    /\ "(rejected)" \notin calls
    /\ LET rec == db[UidOf["a@b.com"]]
           old == LicensedRecord(StartDay - TickDays)
       IN  /\ old.LicenseType = "Annual"
           /\ old.MaxDevices = 3
           /\ NewDate(old.ExpirationDate) > now
           /\ DOMAIN StoredPayments(rec) = {"2", CheckoutId}
           /\ rec.ExpirationDate = PlusMonths(old.ExpirationDate, 1)
           /\ rec.LicenseType = "Monthly"
           /\ rec.MaxDevices = 1

---------------------------------------------------------------------------
(* The second deployment: the webhook handler of the Netlify function *)

\* exports.handler = async function (event), up to its first await: the body
\* is parsed before the signature is verified; the answer is 200 on every path
NetlifyHandlerEntry(req, key, done) ==
    IF req.method # "POST" THEN Returned
    ELSE IF key # "" /\ ~VerifySignature(req, key) THEN Returned
    ELSE LET topic == RequestTopic(req)
             id    == RequestId(req)
         IN  IF topic = "" \/ id = "" THEN Returned
             ELSE IF Dispatch(topic) = "idle" THEN Returned
             ELSE [Returned EXCEPT
                     !.pc = Dispatch(topic),
                     !.id = id,
                     !.snap = done]

\* const { e: email, p: plan = 'individual', d: duration = '1m' } = ref:
\* a default applies to a property that is undefined, not to an empty string
NetlifyHandlePayment(paymentId, payment) ==
    IF ~IsApproved(payment.status) THEN Drop
    ELSE IF ParseReference(payment.external_reference) = Null THEN Throw
    ELSE LET ref      == ParseReference(payment.external_reference)
             email    == Field(ref, "e")
             plan     == IF "p" \in DOMAIN ref THEN ref.p ELSE "individual"
             duration == IF "d" \in DOMAIN ref THEN ref.d ELSE "1m"
         IN  IF email = "" THEN Drop
             ELSE [proceed |-> TRUE, throws |-> FALSE, email |-> email,
                   info |-> [licenseType   |-> Lookup(DURATION_LICENSE, duration, "Monthly"),
                             months        |-> Lookup(DURATION_MONTHS, duration, 1),
                             maxDevices    |-> Lookup(PLAN_MAX_DEVICES, plan, 1),
                             paymentId     |-> paymentId,
                             preapprovalId |-> "",
                             plan          |-> plan,
                             duration      |-> duration,
                             amount        |-> payment.transaction_amount,
                             currency      |-> payment.currency_id,
                             paymentType   |-> "onetime"]]

\* baseDate: `now` is read before the expiration is awaited and compared with
\* it; baseDate starts as a Date made after the read
NetlifyBaseDate(currentExp, nowDay, afterRead) ==
    IF currentExp # Null
    THEN LET existing == NewDate(currentExp)
         IN  IF existing > nowDay THEN existing ELSE afterRead
    ELSE afterRead

\* the world a notification finds, and what a handler made of it
World == [auth |-> auth, db |-> db, outbox |-> outbox, gen |-> gen, lastDone |-> lastDone]

Outcome == [auth |-> auth, db |-> db, calls |-> calls, res |-> hs[1].res]

NetlifyReceivePending(h) ==
    /\ httpIn # Null
    /\ delivered = 0
    /\ FreeSlot(h)
    /\ hs' = [hs EXCEPT ![h] = NetlifyHandlerEntry(httpIn, secret, lastDone)]
    /\ delivered' = delivered + 1
    /\ UNCHANGED <<run, mp, co, secret, now, auth, db, outbox, httpIn, calls, gen, lastDone>>

\* await new Payment(mpClient).get({ id: paymentId }) returns
NetlifyPaymentGet(h) ==
    /\ hs[h].pc = "payment_get"
    /\ hs[h].id \in DOMAIN Payments
    /\ LET g == NetlifyHandlePayment(hs[h].id, Payments[hs[h].id])
       IN  hs' = [hs EXCEPT ![h] =
                    IF g.proceed
                    THEN [@ EXCEPT !.pc = "get_user", !.email = g.email, !.info = g.info]
                    ELSE IF g.throws THEN Caught(@)
                    ELSE Returned]
    /\ calls' = calls \cup {CallAt(hs[h].pc)}
    /\ UNCHANGED <<run, mp, co, secret, now, auth, db, outbox, httpIn, delivered, gen, lastDone>>

\* await auth.getUserByEmail(email); a found identity goes on to read the
\* clock and to start the read of the expiration
NetlifyGetUserByEmail(h) ==
    /\ hs[h].pc = "get_user"
    /\ \E found \in BOOLEAN :
          /\ found => hs[h].email \in auth
          /\ hs' = [hs EXCEPT ![h] =
                      IF found
                      THEN [@ EXCEPT !.pc = "read_exp", !.uid = UidOf[hs[h].email],
                                     !.now = now]
                      ELSE [@ EXCEPT !.pc = "create_user"]]
    /\ calls' = calls \cup {CallAt(hs[h].pc)}
    /\ UNCHANGED <<run, mp, co, secret, now, auth, db, outbox, httpIn, delivered, gen, lastDone>>

\* await auth.createUser({...}) resolves; the clock is read next
NetlifyCreateUser(h) ==
    /\ hs[h].pc = "create_user"
    /\ hs[h].email \notin auth
    /\ auth' = auth \cup {hs[h].email}
    /\ hs' = [hs EXCEPT ![h].pc = "read_exp", ![h].uid = UidOf[hs[h].email],
                        ![h].isNewUser = TRUE, ![h].now = now]
    /\ calls' = calls \cup {CallAt(hs[h].pc)}
    /\ UNCHANGED <<run, mp, co, secret, now, db, outbox, httpIn, delivered, gen, lastDone>>

\* await db.ref(`users/${uid}/ExpirationDate`).once('value') returns
NetlifyReadExpiration(h) ==
    /\ hs[h].pc = "read_exp"
    /\ LET currentExp == StoredExpiration(db[hs[h].uid])
       IN  hs' = IF MonthsIsNumber(hs[h].info)
                 THEN [hs EXCEPT ![h].pc = "update",
                                 ![h].currentExp = currentExp,
                                 ![h].readGen = gen[hs[h].uid],
                                 ![h].newExpDate =
                                     NewExpDate(NetlifyBaseDate(currentExp, hs[h].now, now),
                                                hs[h].info.months)]
                 ELSE [hs EXCEPT ![h] = Caught(@)]
    /\ calls' = calls \cup {CallAt(hs[h].pc)}
    /\ UNCHANGED <<run, mp, co, secret, now, auth, db, outbox, httpIn, delivered, gen, lastDone>>

\* the notification webhook.js has handled is given, in the world it found,
\* to the Netlify function
DeliverToNetlify ==
    /\ run.variant = "api"
    /\ run.start # Null
    /\ delivered = 1
    /\ \A h \in Handlers : hs[h].pc = "idle"
    /\ run' = [run EXCEPT !.variant = "netlify", !.first = Outcome]
    /\ auth' = run.start.auth
    /\ db' = run.start.db
    /\ outbox' = run.start.outbox
    /\ gen' = run.start.gen
    /\ lastDone' = run.start.lastDone
    /\ hs' = [h \in Handlers |-> IdleHandler]
    /\ delivered' = 0
    /\ calls' = {}
    /\ UNCHANGED <<mp, co, secret, now, httpIn>>

\* references whose plan and duration are present and empty
EmptyFieldReferences ==
    { JSONstringify([e |-> "a@b.com", p |-> p, d |-> d]) :
        p \in {"", "profesional"}, d \in {"", "12m"} }

\* a notification is waiting, with or without a configured secret, for a new
\* or a licensed user: of a payment with any reference, or of any topic and id
InitVariants ==
    /\ secret \in {"", Secret}
    /\ co = IdleCheckout
    /\ \E world \in BOOLEAN :
          \/ /\ mp = EmptyProcessor
             /\ \E req \in Notifications :
                   IF world THEN Fresh(StartDay, req)
                   ELSE Licensed(StartDay - TickDays, StartDay, req)
          \/ /\ \E ref \in References \cup EmptyFieldReferences :
                   mp = [EmptyProcessor EXCEPT !.payments = CheckoutId :>
                           [status |-> "approved", external_reference |-> ref,
                            transaction_amount |-> 40, currency_id |-> "USD"]]
             /\ IF world THEN Fresh(StartDay, ProcessorNotification("payment", CheckoutId))
                ELSE Licensed(StartDay - TickDays, StartDay,
                              ProcessorNotification("payment", CheckoutId))
    /\ run = [variant |-> "api", start |-> World, first |-> Null]

NextVariants ==
    \/ \E h \in Handlers : run.variant = "api" /\ ReceivePending(h)
    \/ \E h \in Handlers : run.variant = "api" /\ PaymentGet(h)
    \/ \E h \in Handlers : run.variant = "api" /\ GetUserByEmail(h)
    \/ \E h \in Handlers : run.variant = "api" /\ CreateUser(h)
    \/ \E h \in Handlers : run.variant = "api" /\ ReadExpiration(h)
    \/ DeliverToNetlify
    \/ \E h \in Handlers : run.variant = "netlify" /\ NetlifyReceivePending(h)
    \/ \E h \in Handlers : run.variant = "netlify" /\ NetlifyPaymentGet(h)
    \/ \E h \in Handlers : run.variant = "netlify" /\ NetlifyGetUserByEmail(h)
    \/ \E h \in Handlers : run.variant = "netlify" /\ NetlifyCreateUser(h)
    \/ \E h \in Handlers : run.variant = "netlify" /\ NetlifyReadExpiration(h)
    \/ \E h \in Handlers : PreapprovalGet(h)
    \/ \E h \in Handlers : AuthorizedFetch(h)
    \/ \E h \in Handlers : UpdateUser(h)
    \/ \E h \in Handlers : PaymentSet(h)
    \/ \E h \in Handlers : SubscriptionSet(h)
    \/ \E h \in Handlers : SendActivationEmail(h)

SpecVariants == InitVariants /\ [][NextVariants]_vars

---------------------------------------------------------------------------
(* Properties of the two handler variants *)

\* the Netlify function has handled the notification webhook.js handled
BothHandled ==
    /\ run.variant = "netlify"
    /\ delivered = 1
    /\ AllIdle
    /\ httpIn.method = "POST"

\* C25: for every POST notification, secret, processor state and world, both
\* handler variants make the same external calls, leave the same identities
\* and the same database, and answer 200.
C25_VariantsEquivalent ==
    BothHandled
    => /\ Outcome.calls = run.first.calls
       /\ Outcome.auth = run.first.auth
       /\ Outcome.db = run.first.db
       /\ Outcome.res = 200
       /\ run.first.res = 200

\* the reference of the notified payment has an empty plan or duration
EmptyFieldInReference ==
    /\ RequestTopic(httpIn) = "payment"
    /\ RequestId(httpIn) \in DOMAIN Payments
    /\ LET ref == ParseReference(Payments[RequestId(httpIn)].external_reference)
       IN  /\ ref # Null
           /\ \/ "p" \in DOMAIN ref /\ ref.p = ""
              \/ "d" \in DOMAIN ref /\ ref.d = ""

\* the two variants agree on every notification whose payment reference has
\* no empty plan or duration, while the clock does not advance
C25_ExceptEmptyFields ==
    (BothHandled /\ ~EmptyFieldInReference)
    => /\ Outcome.calls = run.first.calls
       /\ Outcome.auth = run.first.auth
       /\ Outcome.db = run.first.db
       /\ Outcome.res = 200
       /\ run.first.res = 200

\* both variants handled the payment of a new user whose reference is
\* {e, p: "", d: ""}: webhook.js stored the entry as individual / 1m, the
\* Netlify function with the empty plan and duration
C25_VariantsDiverge ==
    /\ BothHandled
    /\ mp.payments # <<>>
    /\ mp.payments[CheckoutId].external_reference
         = JSONstringify([e |-> "a@b.com", p |-> "", d |-> ""])
    /\ CheckoutId \in DOMAIN StoredPayments(run.first.db[UidOf["a@b.com"]])
    /\ CheckoutId \in DOMAIN StoredPayments(db[UidOf["a@b.com"]])
    /\ run.first.db[UidOf["a@b.com"]].payments[CheckoutId].plan = "individual"
    /\ run.first.db[UidOf["a@b.com"]].payments[CheckoutId].duration = "1m"
    /\ db[UidOf["a@b.com"]].payments[CheckoutId].plan = ""
    /\ db[UidOf["a@b.com"]].payments[CheckoutId].duration = ""

====
